---------------------------- MODULE Spec2Model ----------------------------
(* Format-preserving INI document (Settings.py: IniDocument) and the form   *)
(* editor built on it (IniEditorWidget).                                    *)
(*                                                                          *)
(* Text is a sequence of one-character strings; the characters "LF", "CR"   *)
(* and "TAB" stand for the line feed, the carriage return and the tab.      *)
EXTENDS Integers, Sequences, FiniteSets, TLC

-----------------------------------------------------------------------------
(* Text helpers: str.strip, str.lower, str.endswith, "".join                *)

\* Python's \s, restricted to the characters of the model
IsWs(c) == c \in {" ", "TAB", "CR", "LF"}

\* number of leading whitespace characters of s
LeadWs(s) ==
  CHOOSE n \in 0..Len(s) :
    /\ \A i \in 1..n : IsWs(s[i])
    /\ (n = Len(s) \/ ~IsWs(s[n + 1]))

\* number of trailing whitespace characters of s
TrailWs(s) ==
  CHOOSE n \in 0..Len(s) :
    /\ \A i \in (Len(s) - n + 1)..Len(s) : IsWs(s[i])
    /\ (n = Len(s) \/ ~IsWs(s[Len(s) - n]))

\* str.strip()
Strip(s) ==
  IF LeadWs(s) = Len(s) THEN << >>
  ELSE SubSeq(s, LeadWs(s) + 1, Len(s) - TrailWs(s))

Capitals ==
  <<"A", "B", "C", "D", "E", "F", "G", "H", "I", "J", "K", "L", "M",
    "N", "O", "P", "Q", "R", "S", "T", "U", "V", "W", "X", "Y", "Z">>
Smalls ==
  <<"a", "b", "c", "d", "e", "f", "g", "h", "i", "j", "k", "l", "m",
    "n", "o", "p", "q", "r", "s", "t", "u", "v", "w", "x", "y", "z">>

LowerChar(c) ==
  IF \E i \in 1..26 : Capitals[i] = c
  THEN Smalls[CHOOSE i \in 1..26 : Capitals[i] = c]
  ELSE c

\* str.lower()
Lower(s) == [i \in 1..Len(s) |-> LowerChar(s[i])]

EndsWithLF(s) == Len(s) > 0 /\ s[Len(s)] = "LF"

RECURSIVE Concat(_)
\* "".join(lines)
Concat(ls) == IF ls = << >> THEN << >> ELSE Head(ls) \o Concat(Tail(ls))

\* the one element of a singleton set: Only({ e(x) : x \in {v} }) is e(v),
\* with v computed once
Only(S) == CHOOSE x \in S : TRUE

\* index of the first occurrence of c in s, 0 when there is none
FirstIdx(s, c) ==
  IF \E i \in 1..Len(s) : s[i] = c
  THEN CHOOSE i \in 1..Len(s) : s[i] = c /\ \A j \in 1..(i - 1) : s[j] # c
  ELSE 0

-----------------------------------------------------------------------------
(* Text-mode file I/O: open(path, "r") and open(path, "w") with the default *)
(* newline=None, and str.splitlines(True)                                   *)

RECURSIVE ReadText(_)
\* universal newlines on read: CR LF and a lone CR both become LF
ReadText(b) ==
  IF b = << >> THEN << >>
  ELSE IF b[1] = "CR"
       THEN <<"LF">> \o ReadText(IF Len(b) > 1 /\ b[2] = "LF"
                                 THEN SubSeq(b, 3, Len(b))
                                 ELSE Tail(b))
       ELSE <<b[1]>> \o ReadText(Tail(b))

RECURSIVE WriteText(_, _)
\* on write every LF becomes os.linesep
WriteText(t, sep) ==
  IF t = << >> THEN << >>
  ELSE (IF t[1] = "LF" THEN sep ELSE <<t[1]>>) \o WriteText(Tail(t), sep)

IsLineBreak(c) == c \in {"LF", "CR"}

RECURSIVE SplitLines(_)
\* str.splitlines(True): lines keep their terminator
SplitLines(t) ==
  IF t = << >> THEN << >>
  ELSE LET brk == IF \E i \in 1..Len(t) : IsLineBreak(t[i])
                  THEN CHOOSE i \in 1..Len(t) :
                         IsLineBreak(t[i]) /\ \A j \in 1..(i - 1) : ~IsLineBreak(t[j])
                  ELSE 0
           stop == IF brk = 0 THEN Len(t)
                   ELSE IF t[brk] = "CR" /\ brk < Len(t) /\ t[brk + 1] = "LF"
                        THEN brk + 1 ELSE brk
       IN  <<SubSeq(t, 1, stop)>> \o SplitLines(SubSeq(t, stop + 1, Len(t)))

-----------------------------------------------------------------------------
(* The two line patterns                                                    *)

\* a line without its final LF, which $ lets the pattern leave unmatched
Body(raw) == IF EndsWithLF(raw) THEN SubSeq(raw, 1, Len(raw) - 1) ELSE raw

\* _SECTION_RE = ^\s*\[(?P<section>[^\]]+)\]\s*$
SectionMatch(raw) ==
  LET t == Strip(raw)
  IN  /\ Len(t) >= 3
      /\ t[1] = "["
      /\ t[Len(t)] = "]"
      /\ \A i \in 2..(Len(t) - 1) : t[i] # "]"

\* group "section" of _SECTION_RE
SectionGroup(raw) == LET t == Strip(raw) IN SubSeq(t, 2, Len(t) - 1)

\* _KEYVAL_RE = ^(?P<prefix>\s*)(?P<key>[^=;\r\n]+?)\s*=\s*(?P<val>.*?)(?P<suffix>\s*)$
\* the text before the first "=" is prefix, key and blanks: it is not empty
\* and holds no ";" and no line break
KeyvalMatch(raw) ==
  LET eq == FirstIdx(raw, "=")
  IN  /\ eq > 1
      /\ \A i \in 1..(eq - 1) : raw[i] \notin {";", "CR", "LF"}
      /\ \A i \in (eq + 1)..Len(raw) :
           raw[i] = "LF" => \A j \in i..Len(raw) : IsWs(raw[j])

\* groups prefix, key, val and suffix of _KEYVAL_RE on a matching line
KeyvalGroups(raw) ==
  LET eq   == FirstIdx(raw, "=")
      head == SubSeq(raw, 1, eq - 1)
      rest == SubSeq(raw, eq + 1, Len(raw))
      \* prefix is greedy but leaves the key at least one character
      pre  == IF LeadWs(head) = Len(head) THEN Len(head) - 1 ELSE LeadWs(head)
      key  == IF LeadWs(head) = Len(head) THEN SubSeq(head, Len(head), Len(head))
              ELSE SubSeq(head, pre + 1, Len(head) - TrailWs(head))
      \* \s* after "=" is greedy: on a blank rest it takes everything
      val  == Strip(rest)
      suf  == IF val = << >> THEN << >>
              ELSE SubSeq(rest, Len(rest) - TrailWs(rest) + 1, Len(rest))
  IN  [prefix |-> SubSeq(head, 1, pre), key |-> key, val |-> val, suffix |-> suf]

\* _norm_section, _norm_key
norm_section(s) == Strip(s)
norm_key(k) == Strip(k)

-----------------------------------------------------------------------------
(* IniDocument. A document value is the record of the object's fields        *)
(* [lines, refs, section_order, loaded]; refs maps <<section, key>> to an    *)
(* IniValueRef record; line_index counts from 0 as in the source.            *)
(* A file system value is [exists, bytes, sep]: whether self.path is a file, *)
(* its content, and os.linesep.                                              *)

IniValueRef(s, k, v, idx, pre, suf) ==
  [section |-> s, key |-> k, value |-> v, line_index |-> idx,
   prefix |-> pre, suffix |-> suf]

\* refs[t] = r
PutRef(refs, t, r) == [x \in (DOMAIN refs) \cup {t} |-> IF x = t THEN r ELSE refs[x]]

NoRefs == [x \in {} |-> x]

InSeq(x, sq) == \E i \in 1..Len(sq) : sq[i] = x

\* ScanRef keeping the first of two lines that define one key
ScanRefKeepFirst(refs, cur, raw, idx) ==
  LET g == KeyvalGroups(raw)
      s == norm_section(cur)
      k == norm_key(g.key)
  IN  IF <<s, k>> \in DOMAIN refs THEN refs
      ELSE PutRef(refs, <<s, k>>, IniValueRef(s, k, g.val, idx, g.prefix, g.suffix))

\* the refs entry load records for a key=value line
ScanRef(refs, cur, raw, idx) ==
  LET g == KeyvalGroups(raw)
      s == norm_section(cur)
      k == norm_key(g.key)
  IN  PutRef(refs, <<s, k>>, IniValueRef(s, k, g.val, idx, g.prefix, g.suffix))

RECURSIVE Scan(_, _, _, _, _)
\* the loop of load over enumerate(self.lines), from line idx on
Scan(lines, idx, cur, refs, order) ==
  IF idx >= Len(lines) THEN [refs |-> refs, section_order |-> order]
  ELSE LET raw == lines[idx + 1]
       IN  IF SectionMatch(raw)
           THEN LET sec == norm_section(SectionGroup(raw))
                IN  Scan(lines, idx + 1, sec, refs,
                         IF InSeq(sec, order) THEN order ELSE Append(order, sec))
           ELSE IF ~KeyvalMatch(raw)
                THEN Scan(lines, idx + 1, cur, refs, order)
                ELSE Scan(lines, idx + 1, cur, ScanRef(refs, cur, raw, idx), order)

\* the lines load reads from the file
ReadLines(fs) == SplitLines(ReadText(fs.bytes))

\* load clearing the registry before it looks for the file
loadClearingFirst(d, fs) ==
  IF ~fs.exists
  THEN [doc |-> [d EXCEPT !.refs = NoRefs, !.section_order = << >>],
        err |-> "FileNotFoundError"]
  ELSE LET ls == ReadLines(fs)
           sc == Scan(ls, 0, << >>, NoRefs, << >>)
       IN  [doc |-> [lines |-> ls, refs |-> sc.refs,
                     section_order |-> sc.section_order, loaded |-> TRUE],
            err |-> "none"]

\* IniDocument.load: [doc, err]
load(d, fs) ==
  IF ~fs.exists THEN [doc |-> d, err |-> "FileNotFoundError"]
  ELSE LET ls == ReadLines(fs)
           sc == Scan(ls, 0, << >>, NoRefs, << >>)
       IN  [doc |-> [lines |-> ls, refs |-> sc.refs,
                     section_order |-> sc.section_order, loaded |-> TRUE],
            err |-> "none"]

\* IniDocument._ensure_loaded: [doc, err]
ensure_loaded(d, fs) == IF d.loaded THEN [doc |-> d, err |-> "none"] ELSE load(d, fs)

\* Python's None, as a text no value equals
None == <<"None">>

\* IniDocument.get on a loaded document: the value, or None
get(d, section, key) ==
  LET t == <<norm_section(section), norm_key(key)>>
  IN  IF t \in DOMAIN d.refs THEN d.refs[t].value ELSE None

\* IniDocument._find_section_line_index: the index, or -1 for None
find_section_line_index(lines, section) ==
  LET want == norm_section(section)
      hit(i) == SectionMatch(lines[i + 1])
                /\ norm_section(SectionGroup(lines[i + 1])) = want
  IN  IF \E i \in 0..(Len(lines) - 1) : hit(i)
      THEN CHOOSE i \in 0..(Len(lines) - 1) : hit(i) /\ \A j \in 0..(i - 1) : ~hit(j)
      ELSE -1

\* IniDocument._find_section_end_index
find_section_end_index(lines, start_idx) ==
  LET hit(i) == SectionMatch(lines[i + 1])
  IN  IF \E i \in start_idx..(Len(lines) - 1) : hit(i)
      THEN CHOOSE i \in start_idx..(Len(lines) - 1) :
             hit(i) /\ \A j \in start_idx..(i - 1) : ~hit(j)
      ELSE Len(lines)

\* list.insert(at, x), at counted from 0
InsertAt(sq, at, x) == SubSeq(sq, 1, at) \o <<x>> \o SubSeq(sq, at + 1, Len(sq))

\* RewrittenLine taking the suffix from the line as it stands, not from the ref
RewrittenLineReparsed(ref, old, value) ==
  ref.prefix \o ref.key \o <<"=">> \o value \o KeyvalGroups(old).suffix
    \o (IF EndsWithLF(old) THEN <<"LF">> ELSE << >>)

\* the line set writes over an existing key's line
RewrittenLine(ref, old, value) ==
  ref.prefix \o ref.key \o <<"=">> \o value \o ref.suffix
    \o (IF EndsWithLF(old) THEN <<"LF">> ELSE << >>)

\* set, branch "t in self.refs": the line is rewritten in place
set_existing(d, t, value) ==
  LET ref == d.refs[t]
      i   == ref.line_index + 1
  IN  [d EXCEPT !.refs[t].value = value,
                !.lines[i] = RewrittenLine(ref, d.lines[i], value)]

\* _reindex_refs_from leaving the entries as they are
reindex_refs_from_keeping(d, fs) == [doc |-> d, err |-> "none"]

\* IniDocument._reindex_refs_from: the document is loaded again from the file
reindex_refs_from(d, fs) == load([d EXCEPT !.loaded = FALSE], fs)

\* set, branch of a new key: insert the line, register the ref, reindex,
\* then register the section
set_new(d, fs, s, k, value) ==
  LET sidx      == find_section_line_index(d.lines, s)
      insert_at == IF sidx # -1 THEN find_section_end_index(d.lines, sidx + 1)
                   ELSE Len(d.lines)
      line      == k \o <<"=">> \o value \o <<"LF">>
      d1        == [d EXCEPT !.lines = InsertAt(d.lines, insert_at, line),
                             !.refs = PutRef(d.refs, <<s, k>>,
                                IniValueRef(s, k, value, insert_at, << >>, << >>))]
  IN  Only({ IF r.err # "none" THEN r
             ELSE [doc |-> [r.doc EXCEPT !.section_order =
                              IF s # << >> /\ ~InSeq(s, r.doc.section_order)
                              THEN Append(r.doc.section_order, s)
                              ELSE r.doc.section_order],
                   err |-> "none"] :
             r \in {reindex_refs_from(d1, fs)} })

\* IniDocument.set: [doc, err]
set(d, fs, section, key, value) ==
  LET s == norm_section(section)
      k == norm_key(key)
  IN  Only({ IF e.err # "none" THEN e
             ELSE IF <<s, k>> \in DOMAIN e.doc.refs
                  THEN [doc |-> set_existing(e.doc, <<s, k>>, value), err |-> "none"]
                  ELSE set_new(e.doc, fs, s, k, value) :
             e \in {ensure_loaded(d, fs)} })

\* the content save writes: f.writelines(self.lines) in text mode
SavedBytes(d, sep) == WriteText(Concat(d.lines), sep)

-----------------------------------------------------------------------------
(* Value typing: _is_bool_text, _parse_hex_color, _parse_int, _parse_float  *)
(* and the text the form writes back for each kind of widget                *)

Digits == <<"0", "1", "2", "3", "4", "5", "6", "7", "8", "9">>
IsDigit(c) == \E i \in 1..10 : Digits[i] = c
DigitVal(c) == (CHOOSE i \in 1..10 : Digits[i] = c) - 1

HexLetters == <<"a", "b", "c", "d", "e", "f">>
HexCapitals == <<"A", "B", "C", "D", "E", "F">>
IsHex(c) == IsDigit(c) \/ \E i \in 1..6 : HexLetters[i] = c \/ HexCapitals[i] = c
HexVal(c) ==
  IF IsDigit(c) THEN DigitVal(c)
  ELSE 9 + (CHOOSE i \in 1..6 : HexLetters[i] = c \/ HexCapitals[i] = c)

RECURSIVE NumberIn(_, _)
\* the number a run of digits denotes in the given base
NumberIn(ds, base) ==
  IF ds = << >> THEN 0
  ELSE NumberIn(SubSeq(ds, 1, Len(ds) - 1), base) * base + HexVal(ds[Len(ds)])

RECURSIVE NatToStr(_)
\* str(n) of an int n >= 0
NatToStr(n) == IF n < 10 THEN <<Digits[n + 1]>> ELSE NatToStr(n \div 10) \o <<Digits[(n % 10) + 1]>>

StartsWith0x(s) == Len(s) >= 2 /\ s[1] = "0" /\ LowerChar(s[2]) = "x"

\* _is_bool_text comparing the text as it is written
is_bool_text_as_written(v) ==
  IF v \in {<<"t", "r", "u", "e">>, <<"1">>, <<"y", "e", "s">>, <<"o", "n">>}
  THEN "True"
  ELSE IF v \in {<<"f", "a", "l", "s", "e">>, <<"0">>, <<"n", "o">>, <<"o", "f", "f">>}
       THEN "False"
       ELSE "None"

\* _is_bool_text: "True", "False" or "None"
is_bool_text(v) ==
  LET t == Lower(Strip(v))
  IN  IF t \in {<<"t", "r", "u", "e">>, <<"1">>, <<"y", "e", "s">>, <<"o", "n">>}
      THEN "True"
      ELSE IF t \in {<<"f", "a", "l", "s", "e">>, <<"0">>, <<"n", "o">>, <<"o", "f", "f">>}
           THEN "False"
           ELSE "None"

\* _HEX_COLOR_RE = ^\s*0x([0-9a-fA-F]{6}|[0-9a-fA-F]{8})\s*$ matches v
parse_hex_color(v) ==
  LET t == Strip(v)
  IN  /\ Len(t) \in {8, 10}
      /\ t[1] = "0" /\ t[2] = "x"
      /\ \A i \in 3..Len(t) : IsHex(t[i])

\* -?\d+ matches all of t
IsSignedDigits(t) ==
  LET ds == IF Len(t) > 0 /\ t[1] = "-" THEN Tail(t) ELSE t
  IN  Len(ds) > 0 /\ \A i \in 1..Len(ds) : IsDigit(ds[i])

\* int(t, 10) of a text of signed digits
SignedValue(t) ==
  IF t[1] = "-" THEN 0 - NumberIn(Tail(t), 10) ELSE NumberIn(t, 10)

\* _parse_int: [ok, val]; ok is FALSE for None
parse_int(v) ==
  LET s == Strip(v)
  IN  IF StartsWith0x(s)
      THEN IF Len(s) > 2 /\ \A i \in 3..Len(s) : IsHex(s[i])
           THEN [ok |-> TRUE, val |-> NumberIn(SubSeq(s, 3, Len(s)), 16)]
           ELSE [ok |-> FALSE, val |-> 0]
      ELSE IF IsSignedDigits(s)
                \/ (Len(s) > 1 /\ s[1] = "+" /\ \A i \in 2..Len(s) : IsDigit(s[i]))
           THEN [ok |-> TRUE,
                 val |-> IF s[1] = "+" THEN NumberIn(Tail(s), 10) ELSE SignedValue(s)]
           ELSE [ok |-> FALSE, val |-> 0]

\* the test of the QSpinBox branch of _add_control
IsIntText(v) ==
  parse_int(v).ok /\ (StartsWith0x(Lower(Strip(v))) \/ IsSignedDigits(Strip(v)))

\* -?\d+(\.\d+)? matches all of t, with a fraction or without
IsDecimal(t) ==
  LET dot == FirstIdx(t, ".")
  IN  IF dot = 0 THEN IsSignedDigits(t)
      ELSE /\ IsSignedDigits(SubSeq(t, 1, dot - 1))
           /\ dot < Len(t)
           /\ \A i \in (dot + 1)..Len(t) : IsDigit(t[i])

\* the test of the QDoubleSpinBox branch of _add_control: float() accepts
\* every text the pattern matches
IsFloatText(v) == IsDecimal(Strip(v))

\* decimals of a QDoubleSpinBox after setDecimals(6)
Decimals == 6
\* 10 ** Decimals
Scale == 1000000

\* QSpinBox.setRange(-2_147_483_648, 2_147_483_647)
SpinMax == 2147483647
SpinMin == 0 - SpinMax - 1

Clamp(x, lo, hi) == IF x < lo THEN lo ELSE IF x > hi THEN hi ELSE x

\* _parse_float followed by QDoubleSpinBox.setValue: the value the box
\* holds, rounded to Decimals places (the seventh decimal digit decides the
\* rounding), as sign, whole part and millionths. setRange(-1e12, 1e12)
\* clamps no value whose whole part a text of the model can denote.
DoubleSpinValue(v) ==
  LET t    == Strip(v)
      neg  == t[1] = "-"
      u    == IF neg THEN Tail(t) ELSE t
      dot  == FirstIdx(u, ".")
      ip   == IF dot = 0 THEN u ELSE SubSeq(u, 1, dot - 1)
      fp   == IF dot = 0 THEN << >> ELSE SubSeq(u, dot + 1, Len(u))
      pad  == [i \in 1..(Decimals + 1) |-> IF i <= Len(fp) THEN fp[i] ELSE "0"]
      kept == NumberIn(SubSeq(pad, 1, Decimals), 10)
      up   == IF DigitVal(pad[Decimals + 1]) >= 5 THEN 1 ELSE 0
  IN  [neg   |-> neg,
       whole |-> NumberIn(ip, 10) + ((kept + up) \div Scale),
       micro |-> (kept + up) % Scale]

RECURSIVE StripZeros(_)
\* rstrip("0")
StripZeros(s) ==
  IF s # << >> /\ s[Len(s)] = "0" THEN StripZeros(SubSeq(s, 1, Len(s) - 1)) ELSE s

\* the text _apply_controls_to_doc writes for a QDoubleSpinBox holding x:
\* str(int(v)) of a whole number, else "%.6f" less its final zeros
DoubleSpinText(x) ==
  LET frac == NatToStr(Scale + x.micro)
      six  == SubSeq(frac, 2, Len(frac))
      sign == IF x.neg /\ (x.whole # 0 \/ x.micro # 0) THEN <<"-">> ELSE << >>
  IN  IF x.micro = 0 THEN sign \o NatToStr(x.whole)
      ELSE sign \o NatToStr(x.whole) \o <<".">> \o StripZeros(six)

NoNumber == [neg |-> FALSE, whole |-> 0, micro |-> 0]

\* a whole number as the number of a widget
Whole(n) == [neg |-> n < 0, whole |-> IF n < 0 THEN 0 - n ELSE n, micro |-> 0]

\* _add_control trying the integer before the color
add_control_int_first(value) ==
  IF is_bool_text(value) # "None"
  THEN [kind |-> "QCheckBox", checked |-> is_bool_text(value) = "True",
        number |-> NoNumber, text |-> << >>, touched |-> FALSE]
  ELSE IF IsIntText(value)
  THEN [kind |-> "QSpinBox", checked |-> FALSE,
        number |-> Whole(Clamp(parse_int(value).val, SpinMin, SpinMax)),
        text |-> << >>, touched |-> FALSE]
  ELSE IF parse_hex_color(value)
  THEN [kind |-> "ColorEditor", checked |-> FALSE, number |-> NoNumber,
        text |-> value, touched |-> FALSE]
  ELSE IF IsFloatText(value)
  THEN [kind |-> "QDoubleSpinBox", checked |-> FALSE,
        number |-> DoubleSpinValue(value), text |-> << >>, touched |-> FALSE]
  ELSE [kind |-> "QLineEdit", checked |-> FALSE, number |-> NoNumber,
        text |-> value, touched |-> FALSE]

\* _add_control: the widget built for a value
add_control(value) ==
  IF is_bool_text(value) # "None"
  THEN [kind |-> "QCheckBox", checked |-> is_bool_text(value) = "True",
        number |-> NoNumber, text |-> << >>, touched |-> FALSE]
  ELSE IF parse_hex_color(value)
  THEN [kind |-> "ColorEditor", checked |-> FALSE, number |-> NoNumber,
        text |-> value, touched |-> FALSE]
  ELSE IF IsIntText(value)
  THEN [kind |-> "QSpinBox", checked |-> FALSE,
        number |-> Whole(Clamp(parse_int(value).val, SpinMin, SpinMax)),
        text |-> << >>, touched |-> FALSE]
  ELSE IF IsFloatText(value)
  THEN [kind |-> "QDoubleSpinBox", checked |-> FALSE,
        number |-> DoubleSpinValue(value), text |-> << >>, touched |-> FALSE]
  ELSE [kind |-> "QLineEdit", checked |-> FALSE, number |-> NoNumber,
        text |-> value, touched |-> FALSE]

\* _apply_controls_to_doc: the text written for a widget
new_val(w) ==
  CASE w.kind = "QCheckBox" ->
         IF w.checked THEN <<"t", "r", "u", "e">> ELSE <<"f", "a", "l", "s", "e">>
    [] w.kind = "QSpinBox" ->
         (IF w.number.neg THEN <<"-">> ELSE << >>) \o NatToStr(w.number.whole)
    [] w.kind = "QDoubleSpinBox" -> DoubleSpinText(w.number)
    [] w.kind = "ColorEditor" -> Strip(w.text)
    [] OTHER -> w.text

\* set_document: one widget for each entry of the document
set_document(d) == [t \in DOMAIN d.refs |-> add_control(d.refs[t].value)]

RECURSIVE apply_controls(_, _, _, _)
\* _apply_controls_to_doc over the widgets of the keys in todo: [doc, err];
\* an exception of set ends the loop
apply_controls(d, fs, ctl, todo) ==
  IF todo = {} THEN [doc |-> d, err |-> "none"]
  ELSE LET t == CHOOSE x \in todo : TRUE
       IN  Only({ IF r.err # "none" THEN r
                  ELSE apply_controls(r.doc, fs, ctl, todo \ {t}) :
                  r \in {set(d, fs, t[1], t[2], new_val(ctl[t]))} })

-----------------------------------------------------------------------------
(* Bounds and inputs                                                        *)

\* most lines of an initial file
MaxLines == 2
\* most calls on the document in one run
MaxCalls == 3

\* the lines initial files are made of: two headers, a key=value line, a
\* padded one, a comment; ended by LF, by CR LF or by nothing
FileChunks ==
  { <<"[", "A", "]", "LF">>,
    <<"[", "B", "]", "CR", "LF">>,
    <<"k", "=", "1", "LF">>,
    <<" ", "k", " ", "=", " ", "2", " ">>,
    <<";", "c", "=", "1", "CR", "LF">> }

RECURSIVE FilesOf(_, _)
\* the contents made of at most n of the given chunks
FilesOf(chunks, n) ==
  IF n = 0 THEN {<< >>}
  ELSE LET p == FilesOf(chunks, n - 1) IN p \cup {f \o c : f \in p, c \in chunks}

Files == FilesOf(FileChunks, MaxLines)

\* the arguments callers pass to set: the section before any header and a
\* named one, a key, two values
Sections == {<< >>, <<"A">>}
Keys == {<<"k">>}
Values == {<<"9">>, <<"1">>}

\* the lines the files opened in the form editor are made of: a header and
\* one value of each kind
EditorChunks ==
  { <<"[", "A", "]", "LF">>,
    <<"a", "=", "1", "LF">>,
    <<"b", "=", "0", "0", "7", "LF">>,
    <<"c", "=", "1", ".", "5", "0", "LF">>,
    <<"d", "=", "0", "x", "F", "F", "0", "0", "F", "F", "LF">>,
    <<"e", "=", "x", "LF">> }

EditorFiles == FilesOf(EditorChunks, MaxLines)

\* os.linesep: POSIX or Windows
LineSeps == {<<"LF">>, <<"CR", "LF">>}

-----------------------------------------------------------------------------
(* State                                                                    *)

VARIABLES
  lines,          \* IniDocument.lines
  refs,           \* IniDocument.refs
  section_order,  \* IniDocument.section_order
  loaded,         \* IniDocument._loaded
  fileExists,     \* os.path.isfile(self.path)
  fileBytes,      \* the content of the file at self.path
  linesep,        \* os.linesep of the platform
  raised,         \* the exception the last call raised, or "none"
  op,             \* the last call: its name and arguments
  calls,          \* calls made so far
  controls,       \* IniEditorWidget._controls, the form's widgets
  \* the video converter (bat2exe.py: MainWindow)
  checked,        \* the check box of each table row
  row_status,     \* the Estado cell of each table row
  jobs,           \* MainWindow.jobs, the queue
  current_job,    \* MainWindow.current_job, NoJob for None
  proc,           \* MainWindow.proc.state()
  btn_convert,    \* btn_convert.isEnabled()
  btn_cancel,     \* btn_cancel.isEnabled()
  total_jobs,     \* MainWindow.total_jobs
  jobs_done,      \* MainWindow.jobs_done
  progress_total, \* progress_total.value()
  log,            \* the batch lines of the log box
  ffmpeg,         \* ffmpeg_exe() finds an executable
  started,        \* the rows whose job was made current since start_batch
  final_path,     \* what is at the input path of each row: the "original",
                  \* the "converted" file, or nothing ("gone")
  temp_path,      \* a file exists at the temp_path of the job last made
                  \* current
  \* the ISO converter (Iso2XisoConverter.py: XisoConverterApp)
  iso_checked,    \* the check state of each item of iso_list
  exe_valid,      \* exe_input names an existing file
  threads,        \* the ConverterThreads that run, in the order started
  aborted,        \* the application was ended by Qt
  \* the persisted configuration of a tool
  config_file,    \* the tool's JSON file: [is, data], is being "absent",
                  \* "invalid" or "object"
  window,         \* the tool's window: [tool, loaded, fields]
  \* the location changer (LocationChanger.py: TeknoParrotTool)
  pc_ini,         \* the lines of the file pc_ini_file names
  pc_games_dir,   \* TeknoParrotTool.pc_games_dir
  folder,         \* TeknoParrotTool.folder, the UserProfiles folder
  profiles,       \* the XML files of that folder, in os.listdir order
  comboDrive,     \* comboDrive.currentText()
  modified_count, \* the count the Completado box reports
  \* the profile manager (TecknoparrotManager.py: TeknoManager)
  up_files,       \* the GamePath text of each XML file of the UserProfiles
                  \* folder, in sorted order
  mgr_profiles,   \* TeknoManager.profiles: [gamepath_norm, category]
  mgr_categories, \* TeknoManager.categories: [display, prefixes]
  mgr_visible     \* TeknoManager._visible_profiles, as indexes of profiles

iniVars == <<lines, refs, section_order, loaded, fileExists, fileBytes, linesep,
             raised, calls, controls>>

videoVars == <<checked, row_status, jobs, current_job, proc, btn_convert,
               btn_cancel, total_jobs, jobs_done, progress_total, log, ffmpeg,
               started, final_path, temp_path>>

isoVars == <<iso_checked, exe_valid, threads, aborted>>

configVars == <<config_file, window>>

locVars == <<pc_ini, pc_games_dir, folder, profiles, comboDrive, modified_count>>

mgrVars == <<up_files, mgr_profiles, mgr_categories, mgr_visible>>

toolVars == <<videoVars, isoVars, configVars, locVars, mgrVars>>

\* all but the video converter, the ISO converter, the configuration
notVideo == <<iniVars, isoVars, configVars, locVars, mgrVars>>
notIso == <<iniVars, videoVars, configVars, locVars, mgrVars>>
notLoc == <<iniVars, videoVars, isoVars, configVars, mgrVars>>

vars == <<iniVars, op, toolVars>>

docVars == <<lines, refs, section_order, loaded>>

\* the IniDocument object
Doc == [lines |-> lines, refs |-> refs, section_order |-> section_order,
        loaded |-> loaded]

\* the file system as the document sees it
Fs == [exists |-> fileExists, bytes |-> fileBytes, sep |-> linesep]

SetDoc(d) ==
  /\ lines' = d.lines
  /\ refs' = d.refs
  /\ section_order' = d.section_order
  /\ loaded' = d.loaded

\* a call record; rep says the call before it was the same call
Call(name, s, k, v) ==
  [name |-> name, section |-> s, key |-> k, value |-> v,
   rep |-> (op.name = name /\ op.section = s /\ op.key = k /\ op.value = v)]

\* one more call, within the bound
Count == calls < MaxCalls /\ calls' = calls + 1

NoControls == [x \in {} |-> x]

\* rows of the video table, as the last scan_folder filled it
NumRows == 2

Rows == 1..NumRows

\* current_job is None
NoJob == 0

\* MainWindow.__init__ followed by scan_folder: every row unchecked and
\* pending, no batch, the Cancel button disabled
VideoIdle ==
  /\ checked = [r \in Rows |-> FALSE]
  /\ row_status = [r \in Rows |-> "Pendiente"]
  /\ jobs = << >>
  /\ current_job = NoJob
  /\ proc = "NotRunning"
  /\ btn_convert = TRUE
  /\ btn_cancel = FALSE
  /\ total_jobs = 0
  /\ jobs_done = 0
  /\ progress_total = 0
  /\ log = << >>
  /\ started = << >>
  /\ final_path = [r \in Rows |-> "original"]
  /\ temp_path = FALSE

\* items of iso_list, as load_iso_list filled it
NumIsos == 2

Isos == 1..NumIsos

\* ConverterThreads the model lets run at a time
MaxThreads == 2

\* XisoConverterApp.__init__ followed by select_folder: every item
\* unchecked, no thread
IsoIdle ==
  /\ iso_checked = [i \in Isos |-> FALSE]
  /\ threads = << >>
  /\ aborted = FALSE

\* the JSON object {}
EmptyObject == [k \in {} |-> ""]

\* no file, a file json.load cannot read, a file holding the object data
AbsentFile == [is |-> "absent", data |-> EmptyObject]
InvalidFile == [is |-> "invalid", data |-> EmptyObject]
ObjectFile(data) == [is |-> "object", data |-> data]

\* no configuration file, and no window built from one
ConfigIdle ==
  /\ config_file = AbsentFile
  /\ window = [tool |-> "none", loaded |-> FALSE, fields |-> EmptyObject]

\* the location changer with nothing selected
LocIdle ==
  /\ pc_ini = << >>
  /\ pc_games_dir = << >>
  /\ folder = ""
  /\ profiles = << >>
  /\ comboDrive = << >>
  /\ modified_count = 0

\* the profile manager with no UserProfiles folder set
MgrIdle ==
  /\ up_files = << >>
  /\ mgr_profiles = << >>
  /\ mgr_categories = << >>
  /\ mgr_visible = << >>

\* the tools other than the one a specification runs, freshly constructed
ToolsIdle ==
  /\ MgrIdle
  /\ VideoIdle
  /\ ffmpeg = TRUE
  /\ IsoIdle
  /\ exe_valid = TRUE
  /\ ConfigIdle
  /\ LocIdle

\* no INI document open
IniIdle ==
  /\ lines = << >>
  /\ refs = NoRefs
  /\ section_order = << >>
  /\ loaded = FALSE
  /\ fileExists = FALSE
  /\ fileBytes = << >>
  /\ linesep = <<"LF">>
  /\ raised = "none"
  /\ op = [name |-> "init", section |-> << >>, key |-> << >>, value |-> << >>,
           rep |-> FALSE]
  /\ calls = 0
  /\ controls = NoControls

\* IniDocument.__init__(path), on any file and platform
Init ==
  /\ lines = << >>
  /\ refs = NoRefs
  /\ section_order = << >>
  /\ loaded = FALSE
  /\ fileExists = TRUE
  /\ fileBytes \in Files
  /\ linesep \in LineSeps
  /\ raised = "none"
  /\ op = [name |-> "init", section |-> << >>, key |-> << >>, value |-> << >>,
           rep |-> FALSE]
  /\ calls = 0
  /\ controls = NoControls
  /\ ToolsIdle

-----------------------------------------------------------------------------
(* Operations of IniDocument                                                *)

\* doc.load()
Load ==
  \E r \in {load(Doc, Fs)} :
      /\ Count
      /\ SetDoc(r.doc)
      /\ raised' = r.err
      /\ op' = Call("load", << >>, << >>, << >>)
      /\ UNCHANGED <<fileExists, fileBytes, linesep, controls>>
      /\ UNCHANGED toolVars

\* doc.set(section, key, value)
Set(section, key, value) ==
  \E r \in {set(Doc, Fs, section, key, value)} :
      /\ Count
      /\ SetDoc(r.doc)
      /\ raised' = r.err
      /\ op' = Call("set", section, key, value)
      /\ UNCHANGED <<fileExists, fileBytes, linesep, controls>>
      /\ UNCHANGED toolVars

\* IniDocument.save: [doc, fs, err], the write succeeding
save(d, fs) ==
  LET e == ensure_loaded(d, fs)
  IN  IF e.err # "none" THEN [doc |-> e.doc, fs |-> fs, err |-> e.err]
      ELSE [doc |-> e.doc,
            fs  |-> [fs EXCEPT !.exists = TRUE, !.bytes = SavedBytes(e.doc, fs.sep)],
            err |-> "none"]

\* doc.save()
Save ==
  \E r \in {save(Doc, Fs)} :
      /\ Count
      /\ SetDoc(r.doc)
      /\ raised' = r.err
      /\ op' = Call("save", << >>, << >>, << >>)
      /\ fileBytes' = r.fs.bytes
      /\ fileExists' = r.fs.exists
      /\ UNCHANGED <<linesep, controls>>
      /\ UNCHANGED toolVars

\* save_failing dropping the lines it could not write
save_failing_dropping(d, fs, truncated) ==
  LET e == ensure_loaded(d, fs)
  IN  IF e.err # "none" THEN [doc |-> e.doc, fs |-> fs, err |-> e.err]
      ELSE [doc |-> [e.doc EXCEPT !.lines = << >>],
            fs  |-> IF truncated THEN [fs EXCEPT !.exists = TRUE, !.bytes = << >>]
                    ELSE fs,
            err |-> "OSError"]

\* IniDocument.save, open or writelines raising OSError: the file is left
\* as it was (open failed) or is left empty (the write failed after open
\* had truncated it)
save_failing(d, fs, truncated) ==
  LET e == ensure_loaded(d, fs)
  IN  IF e.err # "none" THEN [doc |-> e.doc, fs |-> fs, err |-> e.err]
      ELSE [doc |-> e.doc,
            fs  |-> IF truncated THEN [fs EXCEPT !.exists = TRUE, !.bytes = << >>]
                    ELSE fs,
            err |-> "OSError"]

\* doc.save() failing with an I/O error
SaveFail ==
  \E truncated \in BOOLEAN :
  \E r \in {save_failing(Doc, Fs, truncated)} :
      /\ r.err = "OSError"
      /\ Count
      /\ SetDoc(r.doc)
      /\ raised' = r.err
      /\ op' = Call("save", << >>, << >>, << >>)
      /\ fileBytes' = r.fs.bytes
      /\ fileExists' = r.fs.exists
      /\ UNCHANGED <<linesep, controls>>
      /\ UNCHANGED toolVars

\* the file is deleted by another program
RemoveFile ==
  /\ fileExists
  /\ fileExists' = FALSE
  /\ fileBytes' = << >>
  /\ raised' = "none"
  /\ op' = Call("remove", << >>, << >>, << >>)
  /\ UNCHANGED <<docVars, linesep, calls, controls>>
  /\ UNCHANGED toolVars

Next ==
  \/ Load
  \/ \E s \in Sections, k \in Keys, v \in Values : Set(s, k, v)
  \/ Save
  \/ SaveFail
  \/ RemoveFile

Spec == Init /\ [][Next]_vars

-----------------------------------------------------------------------------
(* The form editor: HyperSpinTab._load_selected_ini and IniEditorWidget.    *)
(* The widget's doc is None exactly while the document is not loaded: the   *)
(* widget is only ever given a document whose load succeeded.               *)

\* a new IniDocument(path)
NewDoc == [lines |-> << >>, refs |-> NoRefs, section_order |-> << >>, loaded |-> FALSE]

\* IniEditorWidget.__init__, on any file and platform
InitEditor ==
  /\ lines = << >>
  /\ refs = NoRefs
  /\ section_order = << >>
  /\ loaded = FALSE
  /\ fileExists = TRUE
  /\ fileBytes \in EditorFiles
  /\ linesep \in LineSeps
  /\ raised = "none"
  /\ op = [name |-> "init", section |-> << >>, key |-> << >>, value |-> << >>,
           rep |-> FALSE]
  /\ calls = 0
  /\ controls = NoControls
  /\ ToolsIdle

\* HyperSpinTab._load_selected_ini: the selected file is opened in the form
LoadSelectedIni ==
  \E r \in {load(NewDoc, Fs)} :
      /\ Count
      /\ SetDoc(r.doc)
      /\ controls' = IF r.err = "none" THEN set_document(r.doc) ELSE NoControls
      /\ raised' = "none"
      /\ op' = Call("open", << >>, << >>, << >>)
      /\ UNCHANGED <<fileExists, fileBytes, linesep>>
      /\ UNCHANGED toolVars

\* IniEditorWidget.reload
Reload ==
  \E r \in {load(Doc, Fs)} :
      /\ loaded
      /\ Count
      /\ SetDoc(r.doc)
      /\ controls' = IF r.err = "none" THEN set_document(r.doc) ELSE controls
      /\ raised' = r.err
      /\ op' = Call("reload", << >>, << >>, << >>)
      /\ UNCHANGED <<fileExists, fileBytes, linesep>>
      /\ UNCHANGED toolVars

\* IniEditorWidget.save: [doc, fs, err]; io is "ok", or how the write fails
editor_save(d, fs, ctl, io) ==
  Only({ IF a.err # "none" THEN [doc |-> a.doc, fs |-> fs, err |-> a.err]
         ELSE IF io = "ok" THEN save(a.doc, fs)
              ELSE save_failing(a.doc, fs, io = "truncated") :
         a \in {apply_controls(d, fs, ctl, DOMAIN ctl)} })

\* the Guardar button, the write succeeding
EditorSave ==
  \E r \in {editor_save(Doc, Fs, controls, "ok")} :
      /\ loaded
      /\ Count
      /\ SetDoc(r.doc)
      /\ raised' = r.err
      /\ op' = Call("guardar", << >>, << >>, << >>)
      /\ fileBytes' = r.fs.bytes
      /\ fileExists' = r.fs.exists
      /\ UNCHANGED <<linesep, controls>>
      /\ UNCHANGED toolVars

\* the Guardar button, the write failing with an I/O error
EditorSaveFail ==
  \E io \in {"untouched", "truncated"} :
  \E r \in {editor_save(Doc, Fs, controls, io)} :
      /\ loaded
      /\ Count
      /\ SetDoc(r.doc)
      /\ raised' = r.err
      /\ op' = Call("guardar", << >>, << >>, << >>)
      /\ fileBytes' = r.fs.bytes
      /\ fileExists' = r.fs.exists
      /\ UNCHANGED <<linesep, controls>>
      /\ UNCHANGED toolVars

\* the user clicks the check box of an entry
Toggle(t) ==
  /\ controls[t].kind = "QCheckBox"
  /\ Count
  /\ controls' = [controls EXCEPT ![t].checked = ~@, ![t].touched = TRUE]
  /\ raised' = "none"
  /\ op' = Call("toggle", t[1], t[2], << >>)
  /\ UNCHANGED <<docVars, fileExists, fileBytes, linesep>>
  /\ UNCHANGED toolVars

\* the user types a text into the field of an entry
TypeText(t, v) ==
  /\ controls[t].kind \in {"QLineEdit", "ColorEditor"}
  /\ Count
  /\ controls' = [controls EXCEPT ![t].text = v, ![t].touched = TRUE]
  /\ raised' = "none"
  /\ op' = Call("type", t[1], t[2], v)
  /\ UNCHANGED <<docVars, fileExists, fileBytes, linesep>>
  /\ UNCHANGED toolVars

NextEditor ==
  \/ LoadSelectedIni
  \/ Reload
  \/ EditorSave
  \/ EditorSaveFail
  \/ \E t \in DOMAIN controls : Toggle(t)
  \/ \E t \in DOMAIN controls, v \in Values : TypeText(t, v)
  \/ RemoveFile

SpecEditor == InitEditor /\ [][NextEditor]_vars

-----------------------------------------------------------------------------
(* Value classification: _add_control applied to one value at a time        *)

\* longest generated text
MaxText == 2

\* characters the generated texts are made of
TextChars == {"1", "0", "2", "x", ".", "-", "+", " ", "F", "e"}

\* hand-picked values: the boolean words in several cases and paddings,
\* colors, integers, decimals, and near misses of each
PickedTexts ==
  {
    <<"t", "r", "u", "e">>, <<"T", "R", "U", "E">>, <<"T", "r", "u", "e">>,
    <<"t", "R", "u", "E">>, <<" ", "y", "e", "s", " ">>, <<"Y", "E", "S">>,
    <<"TAB", "y", "e", "s">>, <<"o", "n">>, <<"O", "N">>, <<"O", "n">>,
    <<"f", "a", "l", "s", "e">>, <<"F", "A", "L", "S", "E">>,
    <<"F", "a", "l", "s", "e">>, <<"n", "o">>, <<"N", "O">>,
    <<"o", "f", "f">>, <<"O", "F", "F">>, <<"o", "F", "f">>,
    <<"t", "r", "u">>, <<"t", "r", "u", "e", "e">>, <<"y", "e", "s", "s">>,
    <<"o", " ", "n">>, <<"o", "f">>, <<"t", " ", "r", "u", "e">>, <<"2">>,
    <<"1", "0">>, <<"0", "1">>, <<"1", " ", "1">>,
    <<"0", "x", "F", "F", "0", "0", "F", "F">>,
    <<"0", "x", "f", "f", "0", "0", "f", "f">>,
    <<"0", "x", "1", "2", "3", "4", "5", "6", "7", "8">>,
    <<"0", "X", "F", "F", "0", "0", "F", "F">>,
    <<"0", "x", "1", "2", "3", "4", "5", "6", "7">>,
    <<"0", "x", "1", "2", "3", "4", "5">>, <<"0", "x", "1", "0">>,
    <<"0", "X", "1", "f">>, <<"0", "x", "G", "0">>,
    <<"0", "x", "F", "F", "0", "0", "F", "G">>,
    <<" ", "0", "x", "F", "F", "0", "0", "F", "F", " ">>, <<"1", "2">>,
    <<"-", "1", "2">>, <<"+", "5">>, <<" ", "7", " ">>, <<"1", ".", "5">>,
    <<"-", "1", ".", "5">>, <<"1", ".">>, <<"1", "e", "5">>,
    <<"1", ".", "5", ".", "2">>, <<"-", ".", "5">>, <<"a", "b", "c">>,
    <<"-", "-", "1">>, <<"0", ".", "0">>, <<"1", ".", "0">>, <<"0", "0">> }

RECURSIVE TextsOf(_)
\* every text of at most n characters of TextChars
TextsOf(n) ==
  IF n = 0 THEN {<< >>}
  ELSE LET shorter == TextsOf(n - 1)
       IN  shorter \cup {Append(t, c) : t \in {x \in shorter : Len(x) = n - 1},
                                        c \in TextChars}

Texts == PickedTexts \cup TextsOf(MaxText)

\* a form with no document
InitClassify ==
  /\ lines = << >>
  /\ refs = NoRefs
  /\ section_order = << >>
  /\ loaded = FALSE
  /\ fileExists = FALSE
  /\ fileBytes = << >>
  /\ linesep \in LineSeps
  /\ raised = "none"
  /\ op = [name |-> "init", section |-> << >>, key |-> << >>, value |-> << >>,
           rep |-> FALSE]
  /\ calls = 0
  /\ controls = NoControls
  /\ ToolsIdle

\* IniEditorWidget._add_control(section, key, value); set_document calls it
\* once for each entry of the document
AddControl(section, key, value) ==
  /\ <<section, key>> \notin DOMAIN controls
  /\ Count
  /\ controls' = PutRef(controls, <<section, key>>, add_control(value))
  /\ raised' = "none"
  /\ op' = Call("add_control", section, key, value)
  /\ UNCHANGED <<docVars, fileExists, fileBytes, linesep>>
  /\ UNCHANGED toolVars

NextClassify == \E k \in Keys, v \in Texts : AddControl(<< >>, k, v)

SpecClassify == InitClassify /\ [][NextClassify]_vars

-----------------------------------------------------------------------------
(* The video converter (bat2exe.py: MainWindow): the batch driver. A job is *)
(* named by its table row; the state of the driver is the record            *)
(* [jobs, current_job, proc, btn_convert, btn_cancel, row_status,           *)
(* total_jobs, jobs_done, progress_total, log, started, final_path,         *)
(* temp_path]. proc is                                                      *)
(* "NotRunning", "Running", or "Dying" once kill() was called on a running  *)
(* process whose end has not been handled yet (state() is still Running).   *)

Video ==
  [jobs |-> jobs, current_job |-> current_job, proc |-> proc,
   btn_convert |-> btn_convert, btn_cancel |-> btn_cancel,
   row_status |-> row_status, total_jobs |-> total_jobs,
   jobs_done |-> jobs_done, progress_total |-> progress_total, log |-> log,
   started |-> started, final_path |-> final_path, temp_path |-> temp_path]

SetVideo(v) ==
  /\ jobs' = v.jobs
  /\ current_job' = v.current_job
  /\ proc' = v.proc
  /\ btn_convert' = v.btn_convert
  /\ btn_cancel' = v.btn_cancel
  /\ row_status' = v.row_status
  /\ total_jobs' = v.total_jobs
  /\ jobs_done' = v.jobs_done
  /\ progress_total' = v.progress_total
  /\ log' = v.log
  /\ started' = v.started
  /\ final_path' = v.final_path
  /\ temp_path' = v.temp_path

\* MainWindow.set_row_status
set_row_status(v, row, status) == [v EXCEPT !.row_status[row] = status]

\* MainWindow.update_total_progress; int(done / total * 100) is the integer
\* quotient for every total the table sizes here allow
update_total_progress(v) ==
  IF v.total_jobs <= 0 THEN [v EXCEPT !.progress_total = 0]
  ELSE [v EXCEPT !.progress_total = (v.jobs_done * 100) \div v.total_jobs]

\* one finished job more, as on_finished and process_next_job count it
job_done(v) == update_total_progress([v EXCEPT !.jobs_done = @ + 1])

\* process_next_job taking the queue from the tail
RECURSIVE process_next_job_from_tail(_, _)
process_next_job_from_tail(v, ff) ==
  IF v.proc # "NotRunning" THEN {v}
  ELSE IF v.jobs = << >>
  THEN {[v EXCEPT !.btn_convert = TRUE, !.btn_cancel = FALSE,
                  !.progress_total = 100,
                  !.log = Append(@, "=== TODO TERMINADO ===")]}
  ELSE IF ~ff THEN {[v EXCEPT !.btn_convert = TRUE, !.btn_cancel = FALSE]}
  ELSE UNION {
         {[w EXCEPT !.proc = "Running"]}
         \cup UNION { process_next_job_from_tail(x, ff) :
                        x \in {job_done(set_row_status(w, w.current_job,
                                                       "ERROR: no inicia FFmpeg"))} } :
         w \in {set_row_status(
                  [v EXCEPT !.current_job = v.jobs[Len(v.jobs)],
                            !.jobs = SubSeq(@, 1, Len(@) - 1),
                            !.started = Append(@, v.jobs[Len(v.jobs)]),
                            !.temp_path = FALSE],
                  v.jobs[Len(v.jobs)], "Convirtiendo")} }

\* MainWindow.process_next_job: the set of states it can leave, QProcess.start
\* either starting ffmpeg or failing to (waitForStarted returns False, the
\* process stays NotRunning and no finished signal follows); ff says that
\* ffmpeg_exe() finds an executable. A temporary file left by an earlier job
\* of the row is removed, or overwritten by ffmpeg -y: temp_path tells what
\* the handlers leave of the job's temporary file, not what a running ffmpeg
\* has written so far
RECURSIVE process_next_job(_, _)
process_next_job(v, ff) ==
  IF v.proc # "NotRunning" THEN {v}
  ELSE IF v.jobs = << >>
  THEN {[v EXCEPT !.btn_convert = TRUE, !.btn_cancel = FALSE,
                  !.progress_total = 100,
                  !.log = Append(@, "=== TODO TERMINADO ===")]}
  ELSE IF ~ff THEN {[v EXCEPT !.btn_convert = TRUE, !.btn_cancel = FALSE]}
  ELSE UNION {
         {[w EXCEPT !.proc = "Running"]}
         \cup UNION { process_next_job(x, ff) :
                        x \in {job_done(set_row_status(w, w.current_job,
                                                       "ERROR: no inicia FFmpeg"))} } :
         w \in {set_row_status(
                  [v EXCEPT !.current_job = Head(v.jobs), !.jobs = Tail(@),
                            !.started = Append(@, Head(v.jobs)),
                            !.temp_path = FALSE],
                  Head(v.jobs), "Convirtiendo")} }

\* the checked rows whose input file exists, in table order: the jobs
\* start_batch prepares
RECURSIVE CheckedFrom(_, _, _)
CheckedFrom(chk, fp, r) ==
  IF r > NumRows THEN << >>
  ELSE IF chk[r] /\ fp[r] # "gone" THEN <<r>> \o CheckedFrom(chk, fp, r + 1)
       ELSE CheckedFrom(chk, fp, r + 1)

\* start_batch leaving the Convert button enabled
start_batch_button_left(v, chk, ff) ==
  IF ~ff \/ CheckedFrom(chk, v.final_path, 1) = << >> THEN {v}
  ELSE process_next_job(
         [v EXCEPT !.jobs = CheckedFrom(chk, v.final_path, 1),
                   !.total_jobs = Len(CheckedFrom(chk, v.final_path, 1)),
                   !.jobs_done = 0, !.progress_total = 0,
                   !.log = <<"=== Iniciando conversion por lotes ===">>,
                   !.btn_cancel = TRUE,
                   !.started = << >>], ff)

\* MainWindow.start_batch: the set of states it can leave
start_batch(v, chk, ff) ==
  IF ~ff \/ CheckedFrom(chk, v.final_path, 1) = << >> THEN {v}
  ELSE process_next_job(
         [v EXCEPT !.jobs = CheckedFrom(chk, v.final_path, 1),
                   !.total_jobs = Len(CheckedFrom(chk, v.final_path, 1)),
                   !.jobs_done = 0, !.progress_total = 0,
                   !.log = <<"=== Iniciando conversion por lotes ===">>,
                   !.btn_convert = FALSE, !.btn_cancel = TRUE,
                   !.started = << >>], ff)

\* how the process of a job ends and what the file operations of
\* on_finished then do. Exit code 0: "ok" (the original removed, the
\* temporary file renamed to it), "remove_failed" (os.remove of the original
\* raises), "replace_failed" (the original removed, os.replace raises).
\* Another exit code or CrashExit: "nonzero", "crash" (no temporary file is
\* left), "nonzero_temp_left", "crash_temp_left" (os.remove of the
\* temporary file raises, which the handler ignores)
Outcomes ==
  {"ok", "remove_failed", "replace_failed", "nonzero", "crash",
   "nonzero_temp_left", "crash_temp_left"}

\* exit_status == CrashExit or exit_code != 0
ExitFailures == {"nonzero", "crash", "nonzero_temp_left", "crash_temp_left"}

\* exit_status == CrashExit, as of a killed process
Crashes == {"crash", "crash_temp_left"}

\* on_finished replacing the original whatever the exit of the process
replace_files_always(v, row, outcome) ==
  [v EXCEPT !.final_path[row] = "converted", !.temp_path = FALSE]

\* the files of the job of row as on_finished leaves them
replace_files(v, row, outcome) ==
  CASE outcome = "ok" ->
         [v EXCEPT !.final_path[row] = "converted", !.temp_path = FALSE]
    [] outcome = "remove_failed" -> [v EXCEPT !.temp_path = TRUE]
    [] outcome = "replace_failed" ->
         [v EXCEPT !.final_path[row] = "gone", !.temp_path = TRUE]
    [] outcome \in {"nonzero", "crash"} -> [v EXCEPT !.temp_path = FALSE]
    [] OTHER -> [v EXCEPT !.temp_path = TRUE]

\* the job is handled: its status text, its files, one job more done
handled(v, outcome) ==
  job_done(set_row_status(
    replace_files([v EXCEPT !.proc = "NotRunning", !.current_job = NoJob],
                  v.current_job, outcome),
    v.current_job,
    CASE outcome = "ok" -> "OK (reemplazado)"
      [] outcome \in ExitFailures -> "ERROR (code)"
      [] OTHER -> "ERROR reemplazo"))

\* on_finished not going on to the next job after a failed process
on_finished_stopping(v, ff, outcome) ==
  IF v.current_job = NoJob THEN {[v EXCEPT !.proc = "NotRunning"]}
  ELSE IF outcome \in ExitFailures THEN {handled(v, outcome)}
  ELSE process_next_job(handled(v, outcome), ff)

\* MainWindow.on_finished, the slot of proc.finished: the process is
\* NotRunning when the signal is delivered
on_finished(v, ff, outcome) ==
  IF v.current_job = NoJob THEN {[v EXCEPT !.proc = "NotRunning"]}
  ELSE process_next_job(handled(v, outcome), ff)

\* cancel leaving the queue as it is
cancel_keeping_queue(v) ==
  [v EXCEPT !.proc = IF @ = "NotRunning" THEN @ ELSE "Dying"]

\* MainWindow.cancel
cancel(v) ==
  [v EXCEPT !.proc = IF @ = "NotRunning" THEN @ ELSE "Dying",
            !.jobs = << >>]


\* the window after a scan, ffmpeg present or not
InitVideo ==
  /\ IniIdle
  /\ MgrIdle
  /\ VideoIdle
  /\ ffmpeg \in BOOLEAN
  /\ IsoIdle
  /\ exe_valid = TRUE
  /\ ConfigIdle
  /\ LocIdle

\* a click on the Convertir seleccionados button, which must be enabled
StartBatch ==
  /\ btn_convert
  /\ \E v \in start_batch(Video, checked, ffmpeg) : SetVideo(v)
  /\ op' = Call("start_batch", << >>, << >>, << >>)
  /\ UNCHANGED <<notVideo, checked, ffmpeg>>

\* the ffmpeg process ends and proc.finished is delivered; a killed process
\* ends as a crash
ProcFinished(outcome) ==
  /\ proc # "NotRunning"
  /\ proc = "Dying" => outcome \in Crashes
  /\ \E v \in on_finished(Video, ffmpeg, outcome) : SetVideo(v)
  /\ op' = Call("on_finished", << >>, << >>, <<outcome>>)
  /\ UNCHANGED <<notVideo, checked, ffmpeg>>

\* a click on the Cancelar button, which must be enabled
Cancel ==
  /\ btn_cancel
  /\ SetVideo(cancel(Video))
  /\ op' = Call("cancel", << >>, << >>, << >>)
  /\ UNCHANGED <<notVideo, checked, ffmpeg>>

\* the user checks or unchecks the box of a row
ToggleRow(r) ==
  /\ checked' = [checked EXCEPT ![r] = ~@]
  /\ op' = Call("check", << >>, << >>, << >>)
  /\ UNCHANGED <<notVideo, row_status, jobs, current_job, proc, btn_convert,
                 btn_cancel, total_jobs, jobs_done, progress_total, log,
                 ffmpeg, started, final_path, temp_path>>

\* ffmpeg.exe is removed from, or put back at, the place ffmpeg_exe() looks
FfmpegChange ==
  /\ ffmpeg' = ~ffmpeg
  /\ op' = Call("ffmpeg", << >>, << >>, << >>)
  /\ UNCHANGED <<notVideo, checked, row_status, jobs, current_job, proc,
                 btn_convert, btn_cancel, total_jobs, jobs_done,
                 progress_total, log, started, final_path, temp_path>>

NextVideo ==
  \/ StartBatch
  \/ \E o \in Outcomes : ProcFinished(o)
  \/ Cancel
  \/ \E r \in Rows : ToggleRow(r)
  \/ FfmpegChange

SpecVideo == InitVideo /\ [][NextVideo]_vars

\* a running ffmpeg ends, and the event loop then delivers proc.finished
SpecVideoFair ==
  SpecVideo /\ WF_vars(\E o \in Outcomes : ProcFinished(o))

-----------------------------------------------------------------------------
(* The ISO converter (Iso2XisoConverter.py). A ConverterThread is the       *)
(* sequence of the items it has still to convert, the first being converted *)
(* by the xdvdfs process it waits for.                                      *)

\* get_selected_isos, and the list convert_all builds
RECURSIVE SelectedFrom(_, _)
SelectedFrom(chk, i) ==
  IF i > NumIsos THEN << >>
  ELSE IF chk[i] THEN <<i>> \o SelectedFrom(chk, i + 1)
       ELSE SelectedFrom(chk, i + 1)

AllIsos == SelectedFrom([i \in Isos |-> TRUE], 1)

\* XisoConverterApp.start_conversion: [threads, aborted]. It keeps no note
\* of a conversion under way; self.thread = ConverterThread(...) drops the
\* only reference the application holds to a thread that still runs, and
\* what destroying a running QThread does is not defined: dropped says
\* whether Qt ends the application for it ("QThread: Destroyed while thread
\* is still running") before the new thread is started
start_conversion(ts, exe, iso_paths, dropped) ==
  IF ~exe THEN [threads |-> ts, aborted |-> FALSE]
  ELSE IF ts # << >> /\ dropped THEN [threads |-> << >>, aborted |-> TRUE]
  ELSE [threads |-> Append(ts, iso_paths), aborted |-> FALSE]

\* the window after a folder was selected, the executable chosen or not
InitIso ==
  /\ IniIdle
  /\ MgrIdle
  /\ VideoIdle
  /\ ffmpeg = TRUE
  /\ IsoIdle
  /\ exe_valid \in BOOLEAN
  /\ ConfigIdle
  /\ LocIdle

\* a click on Convertir seleccionados or Convertir todos with the list
\* iso_paths
StartConversion(name, iso_paths) ==
  /\ ~aborted
  /\ Len(threads) < MaxThreads
  /\ iso_paths # << >>
  /\ \E dropped \in BOOLEAN :
     \E r \in {start_conversion(threads, exe_valid, iso_paths, dropped)} :
       /\ threads' = r.threads
       /\ aborted' = r.aborted
  /\ op' = Call(name, << >>, << >>, iso_paths)
  /\ UNCHANGED <<notIso, iso_checked, exe_valid>>

\* XisoConverterApp.convert_selected
ConvertSelected == StartConversion("convert_selected", SelectedFrom(iso_checked, 1))

\* XisoConverterApp.convert_all
ConvertAll == StartConversion("convert_all", AllIsos)

\* ConverterThread.run, one turn of its loop: the xdvdfs process of thread t
\* ends, and the thread goes on to its next item or ends
ThreadStep(t) ==
  /\ ~aborted
  /\ threads' = IF Len(threads[t]) > 1
                THEN [threads EXCEPT ![t] = Tail(@)]
                ELSE SubSeq(threads, 1, t - 1) \o
                     SubSeq(threads, t + 1, Len(threads))
  /\ op' = Call("run", << >>, << >>, <<threads[t][1]>>)
  /\ UNCHANGED <<notIso, iso_checked, exe_valid, aborted>>

\* the user checks or unchecks an item of the list
IsoToggle(i) ==
  /\ ~aborted
  /\ iso_checked' = [iso_checked EXCEPT ![i] = ~@]
  /\ op' = Call("check", << >>, << >>, <<i>>)
  /\ UNCHANGED <<notIso, exe_valid, threads, aborted>>

\* the executable is selected, or the selected one is removed
ExeChange ==
  /\ ~aborted
  /\ exe_valid' = ~exe_valid
  /\ op' = Call("exe", << >>, << >>, << >>)
  /\ UNCHANGED <<notIso, iso_checked, threads, aborted>>

NextIso ==
  \/ ConvertSelected
  \/ ConvertAll
  \/ \E t \in 1..Len(threads) : ThreadStep(t)
  \/ \E i \in Isos : IsoToggle(i)
  \/ ExeChange

SpecIso == InitIso /\ [][NextIso]_vars

-----------------------------------------------------------------------------
(* Persisted configuration: LocationChanger.load_config, TeknoManager's     *)
(* load_settings and the video converter's load_config. A JSON object is a  *)
(* function from the keys it has to their values, all of them strings here  *)
(* but start_minimized, which is "True" or "False".                         *)

\* dict.get(key, default)
Get(data, key, default) == IF key \in DOMAIN data THEN data[key] ELSE default

\* dict.update(data)
Update(d, data) ==
  [k \in DOMAIN d \cup DOMAIN data |-> IF k \in DOMAIN data THEN data[k] ELSE d[k]]

\* the paths os.path.exists finds, the detected drives of comboDrive, the
\* items of comboSystem and those of category_combo
ExistingPaths == {"D:\\here"}
Drives == <<"C:\\", "E:\\">>
Systems == <<"TeknoParrot", "PC Games">>
Categories == <<"Todas", "LIGHTGUN">>

\* QComboBox.findText and setCurrentIndex: the text current afterwards
SetIfFound(items, current, text) == IF InSeq(text, items) THEN text ELSE current

\* the keys of each tool's file and two values a file may give each
KeysOf(tool) ==
  CASE tool = "LocationChanger" ->
         {"last_folder", "pc_ini_file", "pc_games_dir", "last_system", "last_drive"}
    [] tool = "TeknoManager" ->
         {"exe", "userprofiles", "output", "start_minimized", "extra_args",
          "last_category", "last_ini"}
    [] tool = "VideoConverter" -> {"last_folder", "ffmpeg_path"}

ValuesOf(key) ==
  CASE key = "last_system" -> <<"PC Games", "Arcade">>
    [] key = "last_drive" -> <<"E:\\", "Z:\\">>
    [] key = "start_minimized" -> <<"False", "True">>
    [] key = "last_category" -> <<"LIGHTGUN", "Gone">>
    [] key = "extra_args" -> <<"--x", "">>
    [] OTHER -> <<"D:\\here", "D:\\gone">>

Tools == {"LocationChanger", "TeknoManager", "VideoConverter"}

\* the JSON objects a tool's file may hold: any subset of its keys
ObjectsOf(tool) ==
  { [k \in {x \in KeysOf(tool) : c[x] # 0} |-> ValuesOf(k)[c[k]]] :
      c \in [KeysOf(tool) -> 0..2] }

\* the fields of each window as __init__ leaves them before it loads
Constructed(tool) ==
  CASE tool = "LocationChanger" ->
         [folder |-> "", pc_ini_file |-> "", pc_games_dir |-> "",
          comboSystem |-> Systems[1], comboDrive |-> Drives[1]]
    [] tool = "TeknoManager" ->
         [settings |-> [exe |-> "", userprofiles |-> "", output |-> "",
                        start_minimized |-> "True", extra_args |-> "",
                        last_category |-> "Todas", last_ini |-> ""],
          exe_line |-> "", up_line |-> "", out_line |-> "",
          start_min_cb |-> "False", extra_args_line |-> "",
          category_combo |-> Categories[1]]
    [] tool = "VideoConverter" ->
         [cfg |-> EmptyObject, le_folder |-> "", le_ffmpeg |-> ""]

\* a path read from the file is kept only if it is not empty and exists
KeptPath(path) == IF path # "" /\ path \in ExistingPaths THEN path ELSE ""

\* TeknoParrotTool.load_config (LocationChanger.py)
location_load_config(file, w) ==
  IF file.is # "object" THEN w
  ELSE [w EXCEPT
          !.folder = KeptPath(Get(file.data, "last_folder", "")),
          !.pc_ini_file = KeptPath(Get(file.data, "pc_ini_file", "")),
          !.pc_games_dir = KeptPath(Get(file.data, "pc_games_dir", "")),
          !.comboSystem = SetIfFound(Systems, @,
                                     Get(file.data, "last_system", "TeknoParrot")),
          !.comboDrive = IF Get(file.data, "last_drive", "") # ""
                         THEN SetIfFound(Drives, @, Get(file.data, "last_drive", ""))
                         ELSE @]

\* TeknoManager.save_settings, the file written: the settings it stores.
\* No text of the model has blanks for strip() to take off
save_settings(w) ==
  Update(w.settings,
         [exe |-> w.exe_line, userprofiles |-> w.up_line, output |-> w.out_line,
          start_minimized |-> w.start_min_cb, extra_args |-> w.extra_args_line,
          last_category |-> w.category_combo])

\* TeknoManager.on_category_changed, the slot of the category box, which
\* load_settings sets off when it moves the box to another category
on_category_changed(was, w) ==
  IF w.category_combo = was.category_combo THEN w
  ELSE [w EXCEPT !.settings = save_settings(w)]

\* load_settings putting the object of the file in the place of the defaults
load_settings_replacing(file, w) ==
  Only({ [w EXCEPT
            !.settings = st,
            !.exe_line = Get(st, "exe", ""),
            !.up_line = Get(st, "userprofiles", ""),
            !.out_line = Get(st, "output", ""),
            !.start_min_cb = Get(st, "start_minimized", "True"),
            !.extra_args_line = Get(st, "extra_args", ""),
            !.category_combo = SetIfFound(Categories, @, Get(st, "last_category", "Todas"))] :
         st \in {IF file.is # "object" THEN w.settings ELSE file.data} })

\* TeknoManager.load_settings (TecknoparrotManager.py)
load_settings(file, w) ==
  Only({ [w EXCEPT
            !.settings = st,
            !.exe_line = Get(st, "exe", ""),
            !.up_line = Get(st, "userprofiles", ""),
            !.out_line = Get(st, "output", ""),
            !.start_min_cb = Get(st, "start_minimized", "True"),
            !.extra_args_line = Get(st, "extra_args", ""),
            !.category_combo = SetIfFound(Categories, @, Get(st, "last_category", "Todas"))] :
         st \in {IF file.is # "object" THEN w.settings
                 ELSE Update(w.settings, file.data)} })

\* get_default_ffmpeg_path(), where an ffmpeg is found
DefaultFfmpeg == "D:\\ffmpeg.exe"

\* x or y, for strings
Or(x, y) == IF x # "" THEN x ELSE y

\* load_config (bat2exe.py) and the two reads MainWindow.__init__ makes of
\* the dict it returns; found says get_default_ffmpeg_path() finds an ffmpeg
video_load_config(file, w, found) ==
  Only({ [w EXCEPT
            !.cfg = cfg,
            !.le_folder = Get(cfg, "last_folder", ""),
            !.le_ffmpeg = Or(Get(cfg, "ffmpeg_path", ""),
                             IF found THEN DefaultFfmpeg ELSE "")] :
         cfg \in {IF file.is # "object" THEN EmptyObject ELSE file.data} })

\* a tool is about to open its window, on any configuration file
InitConfig ==
  /\ IniIdle
  /\ MgrIdle
  /\ VideoIdle
  /\ ffmpeg \in BOOLEAN
  /\ IsoIdle
  /\ exe_valid = TRUE
  /\ \E t \in Tools :
       /\ config_file \in {AbsentFile, InvalidFile}
                          \cup {ObjectFile(d) : d \in ObjectsOf(t)}
       /\ window = [tool |-> t, loaded |-> FALSE, fields |-> Constructed(t)]
  /\ LocIdle

Loaded(name, fields, file) ==
  /\ ~window.loaded
  /\ window' = [window EXCEPT !.loaded = TRUE, !.fields = fields]
  /\ config_file' = file
  /\ raised' = "none"
  /\ op' = Call(name, << >>, << >>, << >>)
  /\ UNCHANGED <<docVars, fileExists, fileBytes, linesep, calls, controls,
                 videoVars, isoVars, locVars, mgrVars>>

\* TeknoParrotTool.__init__ reaches self.load_config()
LocationLoadConfig ==
  /\ window.tool = "LocationChanger"
  /\ Loaded("LocationChanger.load_config",
            location_load_config(config_file, window.fields), config_file)

\* TeknoManager.__init__ reaches self.load_settings()
LoadSettings ==
  /\ window.tool = "TeknoManager"
  /\ \E w \in {on_category_changed(window.fields,
                                     load_settings(config_file, window.fields))} :
       Loaded("TeknoManager.load_settings", w,
              IF w.category_combo = window.fields.category_combo
              THEN config_file ELSE ObjectFile(w.settings))

\* MainWindow.__init__ (bat2exe.py) calls load_config() and fills its fields
VideoLoadConfig ==
  /\ window.tool = "VideoConverter"
  /\ Loaded("bat2exe.load_config",
            video_load_config(config_file, window.fields, ffmpeg), config_file)

NextConfig ==
  \/ LocationLoadConfig
  \/ LoadSettings
  \/ VideoLoadConfig

SpecConfig == InitConfig /\ [][NextConfig]_vars

-----------------------------------------------------------------------------
(* The location changer (LocationChanger.py): apply_changes_pc_games. A     *)
(* line is a sequence of characters in which a name (Application, PC,       *)
(* Brawlout, b.exe, ..) stands as one element for the letters it is made    *)
(* of; drive letters, ":", "=", the separators, the quotes and the blanks   *)
(* are characters of their own. The path module is ntpath: the tool         *)
(* rewrites Windows paths for a Windows front-end.                          *)

Sep == "\\"
Slash == "/"
SingleQuote == "'"
DoubleQuote == "\""

\* str.rstrip("\\/")
RECURSIVE RStripSeps(_)
RStripSeps(t) ==
  IF t # << >> /\ t[Len(t)] \in {Sep, Slash}
  THEN RStripSeps(SubSeq(t, 1, Len(t) - 1))
  ELSE t

\* str.split(c): the pieces between the occurrences of c
RECURSIVE SplitOn(_, _)
SplitOn(t, c) ==
  IF FirstIdx(t, c) = 0 THEN <<t>>
  ELSE <<SubSeq(t, 1, FirstIdx(t, c) - 1)>>
       \o SplitOn(SubSeq(t, FirstIdx(t, c) + 1, Len(t)), c)

\* str.replace("/", "\\")
ToBackslashes(t) == [i \in 1..Len(t) |-> IF t[i] = Slash THEN Sep ELSE t[i]]

\* stripped.lower().startswith("application=")
StartsWithApplication(stripped) ==
  /\ Len(stripped) >= 2
  /\ stripped[1] \in {"Application", "application", "APPLICATION"}
  /\ stripped[2] = "="

\* ntpath.join(path, *parts) for parts that have no drive and do not start
\* with a separator, as are all the parts the lines of the model give: a
\* separator is put before a part unless what is joined so far, the drive
\* apart, is empty or ends with one
RECURSIVE JoinParts(_, _, _)
JoinParts(drive, path, parts) ==
  IF parts = << >> THEN drive \o path
  ELSE JoinParts(drive,
                 (IF path # << >> /\ path[Len(path)] \notin {Sep, Slash}
                  THEN Append(path, Sep) ELSE path) \o Head(parts),
                 Tail(parts))

Join(path, parts) ==
  IF Len(path) >= 2 /\ path[2] = ":"
  THEN JoinParts(SubSeq(path, 1, 2), SubSeq(path, 3, Len(path)), parts)
  ELSE JoinParts(<< >>, path, parts)

\* the quote character the code recognises around a value: the tuple it
\* tests against holds the two-character text '" and the single quote, so
\* that only the single quote is ever found
quote_char(original_path) ==
  IF original_path # << >>
     /\ original_path[1] = original_path[Len(original_path)]
     /\ original_path[1] \in {SingleQuote}
  THEN <<original_path[1]>> ELSE << >>

\* parts[2:], parts[1:] or nothing, by the number of parts
relative_parts(parts) ==
  IF Len(parts) >= 3 THEN SubSeq(parts, 3, Len(parts))
  ELSE IF Len(parts) = 2 THEN SubSeq(parts, 2, 2)
  ELSE << >>

\* the body of the loop of apply_changes_pc_games for one line:
\* [line, modified]
rewrite_line(line, pc_root) ==
  IF ~StartsWithApplication(Lower(Strip(line)))
  THEN [line |-> line, modified |-> FALSE]
  ELSE Only({
         Only({ IF Len(path_content) > 1 /\ path_content[2] = ":"
                THEN [line |-> SubSeq(line, 1, FirstIdx(line, "=") - 1) \o <<"=">>
                               \o quote_char(original_path)
                               \o ToBackslashes(
                                    Join(pc_root,
                                         relative_parts(SplitOn(path_content, Sep))))
                               \o quote_char(original_path) \o <<"LF">>,
                      modified |-> TRUE]
                ELSE [line |-> line, modified |-> FALSE] :
                path_content \in {IF quote_char(original_path) # << >>
                                  THEN SubSeq(original_path, 2, Len(original_path) - 1)
                                  ELSE original_path} }) :
         original_path \in {Strip(SubSeq(line, FirstIdx(line, "=") + 1, Len(line)))} })

\* TeknoParrotTool.save_config: the object written to config.json
save_config(dir, fld, drive, system) ==
  [last_folder |-> fld, pc_ini_file |-> IF dir = << >> THEN "" ELSE "D:\\here",
   pc_games_dir |-> dir, last_drive |-> drive, last_system |-> system]

\* apply_changes_pc_games with a valid INI file and games folder: the lines
\* written back and the count reported
apply_changes_pc_games(ls, dir) ==
  [lines |-> [i \in 1..Len(ls) |-> rewrite_line(ls[i], RStripSeps(dir)).line],
   count |-> Cardinality({i \in 1..Len(ls) : rewrite_line(ls[i], RStripSeps(dir)).modified})]

\* lines an INI of the PCLauncher module may hold
PcLines ==
  { <<"[", "Brawlout", "]", "LF">>,
    <<"Application", "=", "G", ":", Sep, "PC", Sep, "Brawlout", Sep, "b.exe", "LF">>,
    <<"Application", "=", "..", Sep, "PC", Sep, "b.exe", "LF">>,
    <<"Application", "=", DoubleQuote, "G", ":", Sep, "PC", Sep, "Brawlout", Sep,
      "b.exe", DoubleQuote, "LF">>,
    <<"Application", "=", SingleQuote, "G", ":", Sep, "PC", Sep, "Brawlout", Sep,
      "b.exe", SingleQuote, "LF">>,
    <<" ", "APPLICATION", "=", " ", "G", ":", Sep, "b.exe", " ", "LF">>,
    <<"Exit", "=", "G", ":", Sep, "PC", Sep, "x.exe", "LF">>,
    <<"Application", "=", "G", ":", Sep, "PC", Sep, "Brawlout", Sep, "b.exe">>,
    <<"Application", "=", "LF">>,
    <<"Application", " ", "=", "G", ":", Sep, "PC", Sep, "b.exe", "LF">>,
    <<";", "Application", "=", "G", ":", Sep, "PC", Sep, "b.exe", "LF">> }

\* games folders as QFileDialog gives them or as config.json holds them: one
\* and two levels deep, and the root of a drive
GamesDirs ==
  { <<"E", ":", Sep, "Games">>,
    <<"E", ":", Slash, "Games", Slash, "PC">>,
    <<"E", ":", Slash>> }

\* lines of the INI file
MaxPcLines == 2

RECURSIVE PcFilesOf(_)
PcFilesOf(n) ==
  IF n = 0 THEN {<< >>}
  ELSE PcFilesOf(n - 1)
       \cup {Append(f, l) : f \in {g \in PcFilesOf(n - 1) : Len(g) = n - 1}, l \in PcLines}

\* an INI file and a games folder are selected
InitPcGames ==
  /\ IniIdle
  /\ MgrIdle
  /\ VideoIdle
  /\ ffmpeg = TRUE
  /\ IsoIdle
  /\ exe_valid = TRUE
  /\ ConfigIdle
  /\ pc_ini \in PcFilesOf(MaxPcLines)
  /\ pc_games_dir \in GamesDirs
  /\ folder = ""
  /\ profiles = << >>
  /\ comboDrive = << >>
  /\ modified_count = 0

\* the Aplicar cambios button with PC Games selected
ApplyChangesPcGames ==
  \E r \in {apply_changes_pc_games(pc_ini, pc_games_dir)} :
    /\ Count
    /\ pc_ini' = r.lines
    /\ modified_count' = r.count
    /\ config_file' = ObjectFile(save_config(pc_games_dir, folder, comboDrive,
                                             "PC Games"))
    /\ op' = Call("apply_changes_pc_games", << >>, << >>, << >>)
    /\ UNCHANGED <<docVars, fileExists, fileBytes, linesep, raised, controls,
                   videoVars, isoVars, window, pc_games_dir, folder, profiles,
                   comboDrive, mgrVars>>

\* select_pc_dir: another games folder is selected
SelectPcDir(dir) ==
  /\ pc_games_dir' = dir
  /\ op' = Call("select_pc_dir", << >>, << >>, dir)
  /\ UNCHANGED <<notLoc, pc_ini, folder, profiles, comboDrive, modified_count>>

NextPcGames ==
  \/ ApplyChangesPcGames
  \/ \E dir \in GamesDirs : SelectPcDir(dir)

SpecPcGames == InitPcGames /\ [][NextPcGames]_vars

-----------------------------------------------------------------------------
(* The location changer: apply_changes_tekno. A profile is the record       *)
(* [parses, node, text]: whether ET.parse reads the file, whether its root  *)
(* has a GamePath child, and the text of that child (empty for None).       *)

\* the profile rewritten with the letter taking the drive letter's place
\* and the colon after it
tekno_profile_colon_too(f, new_letter) ==
  IF f.parses /\ f.node /\ Len(f.text) > 2 /\ f.text[2] = ":"
  THEN [profile |-> [f EXCEPT !.text = <<new_letter>> \o SubSeq(f.text, 3, Len(f.text))],
        modified |-> TRUE]
  ELSE [profile |-> f, modified |-> FALSE]

\* the body of the loop of apply_changes_tekno for one file:
\* [profile, modified]
tekno_profile(f, new_letter) ==
  IF f.parses /\ f.node /\ Len(f.text) > 2 /\ f.text[2] = ":"
  THEN [profile |-> [f EXCEPT !.text = <<new_letter>> \o Tail(f.text)],
        modified |-> TRUE]
  ELSE [profile |-> f, modified |-> FALSE]

\* apply_changes_tekno: [profiles, count, done]; done says it got past its
\* checks (a folder, a drive, at least one XML file)
apply_changes_tekno(fs, fld, drive) ==
  IF fld = "" \/ drive = << >> \/ fs = << >>
  THEN [profiles |-> fs, count |-> 0, done |-> FALSE]
  ELSE [profiles |-> [i \in 1..Len(fs) |-> tekno_profile(fs[i], drive[1]).profile],
        count |-> Cardinality({i \in 1..Len(fs) : tekno_profile(fs[i], drive[1]).modified}),
        done |-> TRUE]

\* texts a GamePath may hold
GamePaths ==
  { <<"G", ":", Sep, "roms", Sep, "x.exe">>,
    <<"e", ":", Slash, "x.exe">>,
    <<"G", ":", Sep>>,
    <<"G", ":">>,
    <<" ", "G", ":", Sep, "x.exe">>,
    <<".", ".", Sep, "x.exe">>,
    << >> }

\* the XML files a UserProfiles folder may hold
ProfileKinds ==
  {[parses |-> FALSE, node |-> FALSE, text |-> << >>],
   [parses |-> TRUE, node |-> FALSE, text |-> << >>]}
  \cup {[parses |-> TRUE, node |-> TRUE, text |-> t] : t \in GamePaths}

\* XML files of the folder
MaxProfiles == 2

RECURSIVE FoldersOf(_)
FoldersOf(n) ==
  IF n = 0 THEN {<< >>}
  ELSE FoldersOf(n - 1)
       \cup {Append(f, x) : f \in {g \in FoldersOf(n - 1) : Len(g) = n - 1},
                             x \in ProfileKinds}

\* the drives comboDrive may show as current, none when none was detected
DriveTexts == {<<"E", ":", Sep>>, <<"C", ":", Sep>>, << >>}

\* the window with TeknoParrot selected, on any folder
InitTekno ==
  /\ IniIdle
  /\ MgrIdle
  /\ VideoIdle
  /\ ffmpeg = TRUE
  /\ IsoIdle
  /\ exe_valid = TRUE
  /\ ConfigIdle
  /\ pc_ini = << >>
  /\ pc_games_dir = << >>
  /\ folder \in {"", "D:\\here"}
  /\ profiles \in FoldersOf(MaxProfiles)
  /\ comboDrive \in DriveTexts
  /\ modified_count = 0

\* the Aplicar cambios button with TeknoParrot selected
ApplyChangesTekno ==
  \E r \in {apply_changes_tekno(profiles, folder, comboDrive)} :
    /\ profiles' = r.profiles
    /\ modified_count' = IF r.done THEN r.count ELSE modified_count
    /\ config_file' = IF r.done
                      THEN ObjectFile(save_config(pc_games_dir, folder,
                                                  comboDrive, "TeknoParrot"))
                      ELSE config_file
    /\ op' = Call("apply_changes_tekno", << >>, << >>, comboDrive)
    /\ UNCHANGED <<iniVars, videoVars, isoVars, window, pc_ini, pc_games_dir,
                   folder, comboDrive, mgrVars>>

\* the user picks another drive in comboDrive
SelectDrive(drive) ==
  /\ comboDrive # << >> /\ drive # << >>
  /\ comboDrive' = drive
  /\ op' = Call("select_drive", << >>, << >>, drive)
  /\ UNCHANGED <<notLoc, pc_ini, pc_games_dir, folder, profiles, modified_count>>

NextTekno ==
  \/ ApplyChangesTekno
  \/ \E d \in DriveTexts : SelectDrive(d)

SpecTekno == InitTekno /\ [][NextTekno]_vars

-----------------------------------------------------------------------------
(* The profile manager (TecknoparrotManager.py): refresh_profiles. A path   *)
(* is a sequence of characters in which a piece of a name (arcade,          *)
(* " moderno", lightgun games, ..) stands as one element for the letters it *)
(* is made of, cut so that one text occurs in another as characters exactly *)
(* when it occurs in it as elements                                         *)

\* the pieces of names written with capitals, each with its lower case
NameCase ==
  <<<<"Arcade", "arcade">>, <<"2-ROMS", "2-roms">>,
    <<"LIGHTGUN GAMES", "lightgun games">>, <<" Moderno", " moderno">>,
    <<"Namco System 246-256", "namco system 246-256">>,
    <<"Namco System 357-369", "namco system 357-369">>,
    <<"Sega Triforce", "sega triforce">>, <<"TEKNOPARROT", "teknoparrot">>>>

\* str.lower() of one element
lower_name(c) ==
  IF \E i \in 1..Len(NameCase) : NameCase[i][1] = c
  THEN NameCase[CHOOSE i \in 1..Len(NameCase) : NameCase[i][1] = c][2]
  ELSE LowerChar(c)

\* the characters each lower-case piece stands for; any other element is
\* one character
NameLen ==
  <<<<"arcade", 6>>, <<"2-roms", 6>>, <<"lightgun games", 14>>,
    <<" moderno", 8>>, <<"namco system 246-256", 20>>,
    <<"namco system 357-369", 20>>, <<"1-placas ", 9>>,
    <<"sega triforce", 13>>, <<"teknoparrot", 11>>, <<"other", 5>>,
    <<"backup", 6>>, <<"g.exe", 5>>>>

CharLen(c) ==
  IF \E i \in 1..Len(NameLen) : NameLen[i][1] = c
  THEN NameLen[CHOOSE i \in 1..Len(NameLen) : NameLen[i][1] = c][2]
  ELSE 1

RECURSIVE TextLen(_)
\* len(text)
TextLen(t) == IF t = << >> THEN 0 ELSE CharLen(Head(t)) + TextLen(Tail(t))

\* pref in text
Occurs(pref, t) ==
  \E i \in 0..(Len(t) - Len(pref)) : SubSeq(t, i + 1, i + Len(pref)) = pref

\* str.lower() of a path
PathLower(t) == [i \in 1..Len(t) |-> lower_name(t[i])]

\* norm_path_for_match
norm_path_for_match(p) ==
  IF p = << >> THEN << >> ELSE PathLower(ToBackslashes(p))

ROOT == <<"e", ":", Sep, "arcade", Sep, "2-roms">>

RECURSIVE JoinPath(_, _, _)
\* str(Path(root) / parts[1] / parts[2] ..): pathlib keeps root as it is
\* written and puts the separator of the platform before each part
JoinPath(root, parts, sep) ==
  IF parts = << >> THEN root
  ELSE JoinPath(root \o <<sep>> \o Head(parts), Tail(parts), sep)

\* one prefix of build_static_categories
PrefixOf(parts, sep) == PathLower(JoinPath(ROOT, parts, sep))

Indent == <<" ", " ", " ", " ">>

\* build_static_categories, on a platform whose pathlib joins with sep
build_static_categories(sep) ==
  <<[display |-> <<"Todas">>, prefixes |-> << >>],
    [display |-> <<"LIGHTGUN">>,
     prefixes |-> <<PrefixOf(<<<<"lightgun games">>>>, sep)>>],
    [display |-> Indent \o <<"Arcade Moderno">>,
     prefixes |-> <<PrefixOf(<<<<"lightgun games">>, <<"arcade", " moderno">>>>,
                             sep)>>],
    [display |-> Indent \o <<"Namco System 357-369">>,
     prefixes |-> <<PrefixOf(<<<<"lightgun games">>, <<"arcade">>,
                               <<"namco system 357-369">>>>, sep)>>],
    [display |-> Indent \o <<"Namco System 246-256">>,
     prefixes |-> <<PrefixOf(<<<<"lightgun games">>, <<"arcade">>,
                               <<"namco system 246-256">>>>, sep)>>],
    [display |-> <<"Namco System 246-256">>,
     prefixes |-> <<PrefixOf(<<<<"1-placas ", "arcade">>,
                               <<"Namco System 246-256">>>>, sep)>>],
    [display |-> <<"Namco System 357-369">>,
     prefixes |-> <<PrefixOf(<<<<"1-placas ", "arcade">>,
                               <<"Namco System 357-369">>>>, sep)>>],
    [display |-> <<"Sega Triforce">>,
     prefixes |-> <<PrefixOf(<<<<"1-placas ", "arcade">>, <<"Sega Triforce">>>>,
                             sep)>>],
    [display |-> <<"Teknoparrot">>,
     prefixes |-> <<PrefixOf(<<<<"1-placas ", "arcade">>, <<"TEKNOPARROT">>>>,
                             sep)>>]>>

SinCategoria == <<"Sin categoría">>

\* XML files the model lets the UserProfiles folder hold
MaxFiles == 2

LightgunDir == <<"E", ":", Sep, "arcade", Sep, "2-roms", Sep, "lightgun games">>
PlacasDir == <<"E", ":", Sep, "arcade", Sep, "2-roms", Sep, "1-placas ", "arcade">>

\* the text of the GamePath node of an XML file; the empty text stands for
\* a file without the node, with an empty node or that cannot be parsed
GamePathTexts ==
  {<< >>,
   <<"E", ":", Sep, "Arcade", Sep, "2-ROMS", Sep, "LIGHTGUN GAMES", Sep,
     "Arcade", " Moderno", Sep, "g.exe">>,
   <<" ", "e", ":", Slash, "arcade", Slash, "2-roms", Slash, "lightgun games",
     Slash, "arcade", Slash, "namco system 357-369", Slash, "g.exe", "LF">>,
   LightgunDir \o <<Sep, "other", Sep, "g.exe">>,
   <<"D", ":", Sep, "arcade", Sep, "2-roms", Sep, "lightgun games", Sep,
     "g.exe">>,
   <<"D", ":", Sep, "backup", Sep>> \o LightgunDir
     \o <<Sep, "arcade", " moderno", "s", Sep, "g.exe">>,
   PlacasDir \o <<Sep, "Sega Triforce", Sep, "g.exe">>,
   PlacasDir \o <<Sep, "teknoparrot", Sep>> \o LightgunDir
     \o <<Sep, "arcade", " moderno", Sep, "g.exe">>}

\* the folders sorted(p.glob("*.xml")) may list
FoldersUpTo(n) == UNION {[1..k -> GamePathTexts] : k \in 0..n}

\* ProfileItem.__init__: extract_gamepath strips the text of the node
ProfileItem(text) ==
  [gamepath_norm |-> norm_path_for_match(Strip(text)), category |-> << >>]

RECURSIVE scan_prefixes_first(_, _, _, _)
\* the loop over the prefixes keeping the first prefix that matches
scan_prefixes_first(cat, j, norm, acc) ==
  IF j > Len(cat.prefixes) THEN acc
  ELSE scan_prefixes_first(cat, j + 1, norm,
         IF /\ cat.prefixes[j] # << >>
            /\ Occurs(cat.prefixes[j], norm)
            /\ acc.best_prefix = << >>
         THEN [best_prefix |-> cat.prefixes[j], category |-> Strip(cat.display)]
         ELSE acc)

RECURSIVE scan_prefixes(_, _, _, _)
\* refresh_profiles, the loop over the prefixes of one category, from the
\* j-th on: acc holds best_prefix and prof.category
scan_prefixes(cat, j, norm, acc) ==
  IF j > Len(cat.prefixes) THEN acc
  ELSE scan_prefixes(cat, j + 1, norm,
         IF /\ cat.prefixes[j] # << >>
            /\ Occurs(cat.prefixes[j], norm)
            /\ TextLen(cat.prefixes[j]) > TextLen(acc.best_prefix)
         THEN [best_prefix |-> cat.prefixes[j], category |-> Strip(cat.display)]
         ELSE acc)

RECURSIVE scan_categories(_, _, _, _)
\* refresh_profiles, the loop over self.categories, from the c-th on
scan_categories(cats, c, norm, acc) ==
  IF c > Len(cats) THEN acc
  ELSE scan_categories(cats, c + 1, norm, scan_prefixes(cats[c], 1, norm, acc))

\* refresh_profiles, the category one profile is given
category_of(cats, norm) ==
  scan_categories(cats, 1, norm,
                  [best_prefix |-> << >>, category |-> SinCategoria]).category

\* category_combo.currentIndex(), counted from 1
CurrentIndex(w) == CHOOSE i \in 1..Len(Categories) : Categories[i] = w.category_combo

\* _category_prefixes_for_index
category_prefixes_for_index(cats, index) ==
  IF index < 1 \/ index > Len(cats) THEN << >> ELSE cats[index].prefixes

RECURSIVE VisibleFrom(_, _, _)
VisibleFrom(profs, prefixes, i) ==
  IF i > Len(profs) THEN << >>
  ELSE (IF \E j \in 1..Len(prefixes) : Occurs(prefixes[j], profs[i].gamepath_norm)
        THEN <<i>> ELSE << >>) \o VisibleFrom(profs, prefixes, i + 1)

\* populate_table: the profiles the table shows
populate_table(profs, cats, w) ==
  IF category_prefixes_for_index(cats, CurrentIndex(w)) = << >>
  THEN [i \in 1..Len(profs) |-> i]
  ELSE VisibleFrom(profs, category_prefixes_for_index(cats, CurrentIndex(w)), 1)

\* refresh_profiles: the message box shown, the profiles, the table, the
\* settings and whether settings.json was written
refresh_profiles(w, files, profs, visible, cats) ==
  IF w.up_line = ""
  THEN [box |-> "UserProfiles missing", profiles |-> profs, visible |-> visible,
        fields |-> w, saved |-> FALSE]
  ELSE IF w.up_line \notin ExistingPaths
  THEN [box |-> "Invalid folder", profiles |-> profs, visible |-> visible,
        fields |-> w, saved |-> FALSE]
  ELSE Only({ [box |-> "none", profiles |-> ps,
               visible |-> populate_table(ps, cats, w),
               fields |-> [w EXCEPT !.settings = save_settings(w)],
               saved |-> TRUE] :
              ps \in {[i \in 1..Len(files) |->
                         Only({ [prof EXCEPT
                                   !.category =
                                     category_of(cats, prof.gamepath_norm)] :
                                prof \in {ProfileItem(files[i])} })]} })

\* the manager's window is open, its settings loaded; the UserProfiles
\* folder holds any files, and pathlib joins with either separator
InitCategories ==
  /\ IniIdle
  /\ VideoIdle
  /\ ffmpeg = TRUE
  /\ IsoIdle
  /\ exe_valid = TRUE
  /\ LocIdle
  /\ up_files \in FoldersUpTo(MaxFiles)
  /\ mgr_profiles = << >>
  /\ mgr_visible = << >>
  /\ \E sep \in {Sep, Slash} : mgr_categories = build_static_categories(sep)
  /\ \E up \in {"", "D:\\here", "D:\\gone"}, c \in 1..Len(Categories) :
       /\ window = [tool |-> "TeknoManager", loaded |-> TRUE,
                    fields |-> [Constructed("TeknoManager") EXCEPT
                                  !.settings.userprofiles = up,
                                  !.settings.last_category = Categories[c],
                                  !.up_line = up,
                                  !.category_combo = Categories[c]]]
       /\ config_file = ObjectFile(window.fields.settings)

\* the window after a handler, and settings.json if the handler saved
Refreshed(name, r) ==
  /\ mgr_profiles' = r.profiles
  /\ mgr_visible' = r.visible
  /\ window' = [window EXCEPT !.fields = r.fields]
  /\ config_file' = IF r.saved THEN ObjectFile(r.fields.settings) ELSE config_file
  /\ op' = Call(name, << >>, << >>, <<r.box>>)
  /\ UNCHANGED <<iniVars, videoVars, isoVars, locVars, up_files, mgr_categories>>

\* the Refresh button, and the refresh at the end of __init__
RefreshProfiles ==
  \E r \in {refresh_profiles(window.fields, up_files, mgr_profiles, mgr_visible,
                             mgr_categories)} :
    Refreshed("refresh_profiles", r)

\* browse_userprofiles: the dialog gives an existing folder, or "" when it
\* is cancelled
BrowseUserprofiles(path) ==
  IF path = ""
  THEN /\ op' = Call("browse_userprofiles", << >>, << >>, <<"cancelled">>)
       /\ UNCHANGED <<iniVars, toolVars>>
  ELSE \E w \in {[window.fields EXCEPT !.up_line = path]} :
         \E r \in {refresh_profiles([w EXCEPT !.settings = save_settings(w)],
                                    up_files, mgr_profiles, mgr_visible,
                                    mgr_categories)} :
           Refreshed("browse_userprofiles", r)

\* on_category_changed, after another item of the category box is chosen
SelectCategory(c) ==
  /\ c # window.fields.category_combo
  /\ \E w \in {[window.fields EXCEPT !.category_combo = c]} :
       Refreshed("on_category_changed",
                 [box |-> "none", profiles |-> mgr_profiles,
                  visible |-> populate_table(mgr_profiles, mgr_categories, w),
                  fields |-> [w EXCEPT !.settings = save_settings(w)],
                  saved |-> TRUE])

NextCategories ==
  \/ RefreshProfiles
  \/ \E path \in ExistingPaths \cup {""} : BrowseUserprofiles(path)
  \/ \E i \in 1..Len(Categories) : SelectCategory(Categories[i])

SpecCategories == InitCategories /\ [][NextCategories]_vars

-----------------------------------------------------------------------------
(* Vocabulary of the properties                                             *)

\* the step is a call of the given name
Called(name) == op'.name = name /\ calls' = calls + 1

\* the document as a call finds it once _ensure_loaded has run
Before == ensure_loaded(Doc, Fs).doc
BeforeOk == ensure_loaded(Doc, Fs).err = "none"

\* the (section, key) a set call names
Target == <<norm_section(op'.section), norm_key(op'.key)>>

\* the step is a set call on a (section, key) that exists
SetHits == Called("set") /\ BeforeOk /\ Target \in DOMAIN Before.refs

\* the step is a set call on a (section, key) that does not exist
SetMisses == Called("set") /\ BeforeOk /\ Target \notin DOMAIN Before.refs

\* position in the line sequence (from 1) of the line of an entry
LineOf(d, t) == d.refs[t].line_index + 1

\* the section a line of ls lies in: the name of the last header before it
SectionAt(ls, i) ==
  LET hs == {j \in 1..(i - 1) : SectionMatch(ls[j])}
  IN  IF hs = {} THEN << >>
      ELSE norm_section(SectionGroup(ls[CHOOSE j \in hs : \A h \in hs : h <= j]))

\* line i of ls is a key=value line defining (section, key) t
Defines(ls, i, t) ==
  /\ ~SectionMatch(ls[i])
  /\ KeyvalMatch(ls[i])
  /\ t = <<SectionAt(ls, i), norm_key(KeyvalGroups(ls[i]).key)>>

RECURSIVE FirstHeaders(_, _)
\* the section names of the header lines of ls, trimmed, each once, in the
\* order of their first header line; seen holds the names met so far
FirstHeaders(ls, seen) ==
  IF ls = << >> THEN seen
  ELSE IF SectionMatch(Head(ls)) /\ ~InSeq(norm_section(SectionGroup(Head(ls))), seen)
       THEN FirstHeaders(Tail(ls), Append(seen, norm_section(SectionGroup(Head(ls)))))
       ELSE FirstHeaders(Tail(ls), seen)

\* IniDocument.sections on a loaded document
sections(d) == d.section_order

\* the widget _add_control built in the last call
Built == controls[<<op.section, op.key>>]

\* t is the word w in some mix of capital and small letters
SameWord(t, w) ==
  /\ Len(t) = Len(w)
  /\ \A i \in 1..Len(w) :
       \/ t[i] = w[i]
       \/ \E n \in 1..26 : Smalls[n] = w[i] /\ Capitals[n] = t[i]

\* v is the word w, in any case, with blanks before and after it
Padded(v, w) ==
  \E a, b \in 0..Len(v) :
    /\ a + b + Len(w) = Len(v)
    /\ \A i \in 1..a : IsWs(v[i])
    /\ \A i \in (Len(v) - b + 1)..Len(v) : IsWs(v[i])
    /\ SameWord(SubSeq(v, a + 1, Len(v) - b), w)

TrueWords == {<<"t", "r", "u", "e">>, <<"1">>, <<"y", "e", "s">>, <<"o", "n">>}
FalseWords == {<<"f", "a", "l", "s", "e">>, <<"0">>, <<"n", "o">>, <<"o", "f", "f">>}

\* the kinds of value in their order of priority, as the widgets shown
Kinds == <<"QCheckBox", "ColorEditor", "QSpinBox", "QDoubleSpinBox", "QLineEdit">>

\* every character of t from position i on is a digit (of base 16 if hex)
DigitsFrom(t, i, hex) ==
  /\ i <= Len(t)
  /\ \A j \in i..Len(t) : IF hex THEN IsHex(t[j]) ELSE IsDigit(t[j])

\* value v, blanks aside, is of kind number n of Kinds
Qualifies(v, n) ==
  LET t == Strip(v)
      u == IF Len(t) > 0 /\ t[1] = "-" THEN Tail(t) ELSE t
      dot == FirstIdx(u, ".")
  IN  CASE n = 1 -> \E w \in TrueWords \cup FalseWords : Padded(v, w)
        [] n = 2 -> /\ Len(t) \in {8, 10} /\ t[1] = "0" /\ t[2] = "x"
                    /\ DigitsFrom(t, 3, TRUE)
        [] n = 3 -> \/ DigitsFrom(u, 1, FALSE)
                    \/ /\ Len(t) > 2 /\ t[1] = "0" /\ t[2] \in {"x", "X"}
                       /\ DigitsFrom(t, 3, TRUE)
        [] n = 4 -> \/ DigitsFrom(u, 1, FALSE)
                    \/ /\ dot > 1
                       /\ DigitsFrom(SubSeq(u, 1, dot - 1), 1, FALSE)
                       /\ DigitsFrom(SubSeq(u, dot + 1, Len(u)), 1, FALSE)
        [] OTHER -> TRUE

-----------------------------------------------------------------------------
(* Properties                                                               *)

\* C1: set on an existing (section, key) replaces only the value of that
\* key's line; the line keeps its prefix, its trailing blanks and exactly
\* its line terminator.
C1_ValueOnly ==
  [][SetHits =>
       LET old    == Before.lines[LineOf(Before, Target)]
           b      == Body(old)
           blanks == SubSeq(b, Len(b) - TrailWs(b) + 1, Len(b))
       IN  lines'[LineOf(Before, Target)] =
             SubSeq(old, 1, LeadWs(old)) \o Target[2] \o <<"=">> \o op'.value
               \o blanks \o (IF EndsWithLF(old) THEN <<"LF">> ELSE << >>)]_vars

\* C2: set on a key that does not exist in an existing section leaves the
\* document with the new line key=value LF right before the next section
\* header, or at the end of the file when the section is the last one.
C2_InsertedInSection ==
  [][(SetMisses /\ find_section_line_index(Before.lines, Target[1]) # -1
        /\ raised' = "none") =>
       LET h    == find_section_line_index(Before.lines, Target[1]) + 1
           nxt  == {j \in (h + 1)..Len(Before.lines) : SectionMatch(Before.lines[j])}
           at   == IF nxt = {} THEN Len(Before.lines)
                   ELSE (CHOOSE j \in nxt : \A n \in nxt : j <= n) - 1
       IN  lines' = InsertAt(Before.lines, at,
                             Target[2] \o <<"=">> \o op'.value \o <<"LF">>)]_vars

\* C3: load followed at once by save, with no set in between, writes back
\* exactly the bytes of the file, each line with its own terminator.
C3_RoundTrip ==
  [][(Called("save") /\ raised' = "none" /\ fileExists
        /\ (~loaded \/ (op.name = "load" /\ raised = "none"))) =>
       fileBytes' = fileBytes]_vars

\* C4: set on an existing key changes only the line that defines the key:
\* every other line of the document is unchanged and the document has as
\* many lines as before.
C4_OnlyThatLine ==
  [][(SetHits /\ SplitLines(Concat(Before.lines)) = Before.lines) =>
       LET new == SplitLines(Concat(lines'))
       IN  /\ Len(new) = Len(Before.lines)
           /\ \A j \in 1..Len(Before.lines) :
                j # LineOf(Before, Target) => new[j] = Before.lines[j]]_vars

\* C5: a document loaded into the form and saved with no control touched
\* keeps the value text of every entry, whatever widget the value got.
C5_UntouchedValuesKept ==
  [][(Called("guardar") /\ raised' = "none") =>
       \A t \in DOMAIN controls :
         (~controls[t].touched /\ t \in DOMAIN refs) =>
           refs'[t].value = refs[t].value]_vars

\* C6: set(section, key, v) called twice in a row leaves the document (line
\* sequence, entries, section list) as the first call left it, whether the
\* key exists or not.
C6_SetIdempotent ==
  [][(Called("set") /\ op'.rep) => UNCHANGED <<lines, refs, section_order>>]_vars

\* a set was repeated on a key that exists, whose line it had rewritten
C6_Witness ==
  /\ op.name = "set" /\ op.rep /\ raised = "none"
  /\ get(Doc, op.section, op.key) = op.value
  /\ \E i \in 1..Len(lines) : Len(lines[i]) > 1 /\ lines[i][Len(lines[i]) - 1] = "LF"

\* C7: when several lines of a section define the same key, get returns the
\* value of the last of them, and set rewrites that last line only: the
\* earlier lines stay as they were.
C7_LastDuplicateWins ==
  [][/\ (Called("load") /\ raised' = "none") =>
          \A t \in DOMAIN refs' :
            \A ds \in {{i \in 1..Len(lines') : Defines(lines', i, t)}} :
              /\ ds # {}
              /\ \A mx \in {i \in ds : \A j \in ds : j <= i} :
                   /\ LineOf(Doc', t) = mx
                   /\ get(Doc', t[1], t[2]) = KeyvalGroups(lines'[mx]).val
     /\ Called("set") =>
          \A d \in {Before} :
            (BeforeOk /\ Target \in DOMAIN d.refs) =>
              \A ds \in {{i \in 1..Len(d.lines) : Defines(d.lines, i, Target)}} :
                /\ ds # {}
                /\ \A mx \in {i \in ds : \A j \in ds : j <= i} :
                     /\ Len(lines') = Len(d.lines)
                     /\ \A j \in 1..Len(lines') : j # mx => lines'[j] = d.lines[j]
                     /\ KeyvalGroups(lines'[mx]).val = op'.value
                     /\ get(Doc', Target[1], Target[2]) = op'.value]_vars

\* a set has rewritten the second of two lines defining one key
C7_Witness ==
  /\ op.name = "set" /\ raised = "none" /\ loaded
  /\ \E t \in DOMAIN refs :
       /\ t = <<norm_section(op.section), norm_key(op.key)>>
       /\ Cardinality({i \in 1..Len(lines) : Defines(lines, i, t)}) = 2
       /\ refs[t].line_index = 1
       /\ KeyvalGroups(lines[1]).val # op.value
       /\ KeyvalGroups(lines[2]).val = op.value

\* C8: load on a path that is no file raises FileNotFoundError and changes
\* nothing: lines, entries and section list are what they were.
C8_LoadMissingFile ==
  [][(Called("load") /\ ~fileExists) =>
       /\ raised' = "FileNotFoundError"
       /\ UNCHANGED <<lines, refs, section_order>>]_vars

\* load has failed on a document that holds lines and entries
C8_Witness ==
  /\ op.name = "load" /\ raised = "FileNotFoundError" /\ ~fileExists
  /\ lines # << >> /\ DOMAIN refs # {} /\ section_order # << >>

\* C9: a save that fails with an I/O error raises it and leaves the
\* document in memory as it was, and the successful save that follows
\* writes that document, with every value set since load.
C9_FailedSaveKeepsDocument ==
  [][Called("save") =>
       /\ raised' = "OSError" =>
            /\ lines' = Before.lines
            /\ refs' = Before.refs
            /\ section_order' = Before.section_order
       /\ (raised' = "none" /\ op.name = "save" /\ raised = "OSError") =>
            /\ UNCHANGED <<lines, refs, section_order>>
            /\ fileBytes' = WriteText(Concat(lines), linesep)]_vars

\* a value was set, a save failed and truncated the file, the next save
\* wrote the value
C9_Witness ==
  /\ op.name = "save" /\ op.rep /\ raised = "none"
  /\ \E t \in DOMAIN refs : refs[t].value = <<"9">>
  /\ \E i \in 1..Len(fileBytes) : fileBytes[i] = "9"

\* C10: after load, every line that is neither a section header nor a
\* key=value line, comments included, has no entry and stands in the line
\* sequence exactly as it stands in the file; load raises no error on it.
C10_MalformedKept ==
  (op.name = "load" /\ fileExists) =>
    LET fl == SplitLines(fileBytes)
    IN  /\ raised = "none"
        /\ Len(lines) = Len(fl)
        /\ \A i \in 1..Len(lines) :
             (~SectionMatch(lines[i]) /\ ~KeyvalMatch(lines[i])) =>
               /\ lines[i] = fl[i]
               /\ \A t \in DOMAIN refs : refs[t].line_index # i - 1
        /\ \A i \in 1..Len(lines) :
             (LeadWs(lines[i]) < Len(lines[i]) /\ lines[i][LeadWs(lines[i]) + 1] = ";") =>
               \A t \in DOMAIN refs : refs[t].line_index # i - 1

\* C11: after every load and set, sections() lists no name twice, starts
\* with the trimmed names of the document's header lines in the order of
\* their first header line, and a set keeps every name listed before it and
\* lists the section it names.
C11_SectionsOrdered ==
  [][((Called("load") \/ Called("set")) /\ raised' = "none") =>
       \A so \in {sections(Doc')}, fo \in {FirstHeaders(lines', << >>)} :
         /\ \A i, j \in 1..Len(so) : so[i] = so[j] => i = j
         /\ Len(fo) <= Len(so) /\ SubSeq(so, 1, Len(fo)) = fo
         /\ Called("set") =>
              /\ \A i \in 1..Len(Before.section_order) :
                   InSeq(Before.section_order[i], so)
              /\ Target[1] # << >> => InSeq(Target[1], so)]_vars


\* C12: the widget chosen for a value is the one of the first kind the
\* value qualifies for, in the order boolean, hexadecimal color, integer,
\* floating point, free text.
C12_KindPriority ==
  op.name = "add_control" =>
    \A n \in 1..5 :
      (Qualifies(op.value, n) /\ \A m \in 1..(n - 1) : ~Qualifies(op.value, m)) =>
        Built.kind = Kinds[n]

\* a value that is a color and an integer has got the color editor; one
\* that is a boolean, an integer and a decimal has its box in the model too
C12_Witness ==
  /\ op.name = "add_control"
  /\ Qualifies(op.value, 2) /\ Qualifies(op.value, 3)
  /\ Built.kind = "ColorEditor"

\* C13: a value is a boolean-true exactly when, blanks around it aside and
\* in any mix of cases, it is true, 1, yes or on, a boolean-false exactly
\* when it is false, 0, no or off, and no boolean otherwise.
C13_BooleanTexts ==
  op.name = "add_control" =>
    /\ (Built.kind = "QCheckBox" /\ Built.checked) <=>
         \E w \in TrueWords : Padded(op.value, w)
    /\ (Built.kind = "QCheckBox" /\ ~Built.checked) <=>
         \E w \in FalseWords : Padded(op.value, w)

\* a padded "yes" and a capital "OFF" are classified; here the padded one
C13_Witness ==
  /\ op.name = "add_control"
  /\ op.value = <<" ", "y", "e", "s", " ">>
  /\ Built.kind = "QCheckBox" /\ Built.checked

\* a step of the video converter's handler of that name
Did(name) == op'.name = name

\* the step is a click on Convert that gets past the checks of start_batch
\* and prepares a batch
BatchStarts ==
  Did("start_batch") /\ ffmpeg /\ CheckedFrom(checked, final_path, 1) # << >>

C14_Aborted ==
  /\ op.name = "on_finished"
  /\ btn_convert /\ proc = "NotRunning" /\ jobs # << >>

\* the rows made current by the step, in the order they were
Fresh ==
  IF BatchStarts THEN started'
  ELSE SubSeq(started', Len(started) + 1, Len(started'))

\* row r was made current by the step and its ffmpeg did not start
FailedToLaunch(r) ==
  \E i \in 1..Len(Fresh) :
    Fresh[i] = r /\ (i < Len(Fresh) \/ proc' # "Running")

\* the step handles the end of a process that failed: nonzero code or crash
ProcessFailed ==
  /\ Did("on_finished") /\ current_job # NoJob
  /\ op'.value \in {<<o>> : o \in ExitFailures}

\* the step handles the failure of a job's process, of either kind
FailureHandled == ProcessFailed \/ \E r \in Rows : FailedToLaunch(r)

\* the failed jobs of the step have their ERROR text, each on its own row
ErrorOnOwnRow ==
  /\ ProcessFailed => row_status'[current_job] = "ERROR (code)"
  /\ \A r \in Rows :
       FailedToLaunch(r) => row_status'[r] = "ERROR: no inicia FFmpeg"

\* the batch has gone on: the handler has left a job running with the rest
\* of the queue behind it, or has tried to start every job of the queue
QueueGoesOn ==
  /\ proc' = "Running" \/ jobs' = << >>
  /\ \A r \in Rows :
       (Did("on_finished") /\ InSeq(r, jobs) /\ ~InSeq(r, jobs')) =>
         InSeq(r, started')

QueueBefore == IF BatchStarts THEN CheckedFrom(checked, final_path, 1) ELSE jobs

\* a sequence of rows in ascending table order
Ascending(sq) == \A i, j \in 1..Len(sq) : i < j => sq[i] < sq[j]

\* C17: jobs run one at a time in queue order, which is ascending table
\* row: a row is being converted only while it is the one current job and
\* its process is active; the jobs made current since start_batch, followed
\* by the queue, are in ascending row order; a step makes jobs current only
\* in start_batch or in the handler of the end of the current job's process,
\* taking them from the head of the queue in order, each one after the one
\* before it has failed to start.
C17_OneAtATimeInOrder ==
  /\ [](\A r \in Rows :
          row_status[r] = "Convirtiendo" =>
            (current_job = r /\ proc # "NotRunning"))
  /\ [](proc # "NotRunning" =>
          (started # << >> /\ current_job = started[Len(started)]))
  /\ [](~btn_convert => Ascending(started \o jobs))
  /\ [][Fresh # << >> =>
          /\ Did("start_batch") \/ Did("on_finished")
          /\ proc = "NotRunning" \/ Did("on_finished")
          /\ QueueBefore = Fresh \o jobs'
          /\ \A i \in 1..(Len(Fresh) - 1) :
               row_status'[Fresh[i]] = "ERROR: no inicia FFmpeg"]_vars

\* the first job of a batch of two is done and replaced, the second, taken
\* from the queue by the handler of the first one's end, is being converted
C17_Witness ==
  /\ op.name = "on_finished" /\ op.value = <<"ok">>
  /\ started = <<1, 2>> /\ jobs = << >>
  /\ row_status[1] = "OK (reemplazado)" /\ row_status[2] = "Convirtiendo"
  /\ current_job = 2 /\ proc = "Running"

\* C15: in the ISO converter no conversion is started while one is running:
\* a click starts a ConverterThread only when no ConverterThread started
\* before is still converting.
C15_OneConversion ==
  [][(Did("convert_selected") \/ Did("convert_all")) =>
       (Len(threads') > Len(threads) => threads = << >>)]_vars

\* two ConverterThreads are converting at once
C15_TwoThreads == Len(threads) = 2 /\ ~aborted

\* what the window of a tool holds for a key of its file
Shown(tool, key, f) ==
  CASE tool = "LocationChanger" ->
         ( CASE key = "last_folder" -> f.folder
             [] key = "pc_ini_file" -> f.pc_ini_file
             [] key = "pc_games_dir" -> f.pc_games_dir
             [] key = "last_system" -> f.comboSystem
             [] key = "last_drive" -> f.comboDrive )
    [] tool = "TeknoManager" ->
         <<Get(f.settings, key, "no such key"),
           CASE key = "exe" -> f.exe_line
             [] key = "userprofiles" -> f.up_line
             [] key = "output" -> f.out_line
             [] key = "start_minimized" -> f.start_min_cb
             [] key = "extra_args" -> f.extra_args_line
             [] key = "last_category" -> f.category_combo
             [] key = "last_ini" -> "">>
    [] tool = "VideoConverter" ->
         ( CASE key = "last_folder" -> f.le_folder
             [] key = "ffmpeg_path" -> f.le_ffmpeg )

\* the default of a key: nothing selected, the first system and the first
\* detected drive, start minimized, every category, the ffmpeg found
DefaultOf(tool, key) ==
  CASE tool = "LocationChanger" ->
         ( CASE key = "last_system" -> "TeknoParrot"
             [] key = "last_drive" -> Drives[1]
             [] OTHER -> "" )
    [] tool = "TeknoManager" ->
         ( CASE key = "start_minimized" -> <<"True", "True">>
             [] key = "last_category" -> <<"Todas", "Todas">>
             [] OTHER -> <<"", "">> )
    [] tool = "VideoConverter" ->
         ( CASE key = "ffmpeg_path" -> IF ffmpeg THEN DefaultFfmpeg ELSE ""
             [] OTHER -> "" )

\* the step is a loader reading a file that holds an object
LoadsObject == ~window.loaded /\ window'.loaded /\ config_file.is = "object"

\* C18: a loader that reads a present file holding any subset of its keys
\* completes without error, and the window then holds the default of every
\* key the file lacks.
C18_MissingKeysDefault ==
  [][LoadsObject =>
       /\ raised' = "none"
       /\ \A k \in KeysOf(window.tool) \ DOMAIN config_file.data :
            Shown(window.tool, k, window'.fields) = DefaultOf(window.tool, k)]_vars

\* TeknoManager has loaded a file that gives exe and lacks output and
\* start_minimized: the path is shown, the defaults stand for the others
C18_Witness ==
  /\ op.name = "TeknoManager.load_settings" /\ window.loaded
  /\ config_file.is = "object"
  /\ DOMAIN config_file.data = {"exe", "extra_args"}
  /\ window.fields.exe_line = "D:\\here"
  /\ window.fields.out_line = "" /\ window.fields.start_min_cb = "True"
  /\ window.fields.settings.output = ""

\* a value without the pair of single or double quotes around it
Unquoted(v) ==
  IF Len(v) >= 2 /\ v[1] = v[Len(v)] /\ v[1] \in {SingleQuote, DoubleQuote}
  THEN SubSeq(v, 2, Len(v) - 1) ELSE v

\* the line is an Application= line; the path it gives
IsApplicationLine(line) == StartsWithApplication(Lower(Strip(line)))
PathOf(line) == Unquoted(Strip(SubSeq(line, FirstIdx(line, "=") + 1, Len(line))))

\* the path has a drive letter
HasDrive(path) == Len(path) >= 2 /\ path[2] = ":"

\* the path lies beneath the folder dir
Beneath(path, dir) ==
  \A root \in {Append(ToBackslashes(RStripSeps(dir)), Sep)} :
    Len(path) > Len(root) /\ SubSeq(path, 1, Len(root)) = root

\* C19: apply_changes_pc_games keeps the number and order of the lines,
\* rewrites every Application= line whose path has a drive letter so that
\* the path lies beneath the games folder, and leaves every other line as
\* it was.
C19_PcGamesRewrite ==
  [][Did("apply_changes_pc_games") =>
       /\ Len(pc_ini') = Len(pc_ini)
       /\ \A i \in 1..Len(pc_ini) :
            IF IsApplicationLine(pc_ini[i]) /\ HasDrive(PathOf(pc_ini[i]))
            THEN Beneath(PathOf(pc_ini'[i]), pc_games_dir)
            ELSE pc_ini'[i] = pc_ini[i]]_vars

\* the profile has a GamePath whose text is longer than two characters and
\* has the colon second
DriveLettered(f) == f.parses /\ f.node /\ Len(f.text) > 2 /\ f.text[2] = ":"

\* the step is an apply_changes_tekno that got to the files
TeknoApplied ==
  Did("apply_changes_tekno") /\ folder # "" /\ comboDrive # << >> /\ profiles # << >>

\* C20: apply_changes_tekno gives every profile whose GamePath is longer
\* than two characters with the colon second the old GamePath with its
\* first character replaced by the selected drive letter and nothing else
\* changed, leaves every other profile as it was, and counts the former
\* only.
C20_DriveLetterOnly ==
  [][TeknoApplied =>
       /\ Len(profiles') = Len(profiles)
       /\ \A i \in 1..Len(profiles) :
            IF DriveLettered(profiles[i])
            THEN /\ Len(profiles'[i].text) = Len(profiles[i].text)
                 /\ profiles'[i].text[1] = comboDrive[1]
                 /\ \A j \in 2..Len(profiles[i].text) :
                      profiles'[i].text[j] = profiles[i].text[j]
            ELSE profiles'[i] = profiles[i]
       /\ modified_count' =
            Cardinality({i \in 1..Len(profiles) : DriveLettered(profiles[i])})]_vars

\* a folder of two profiles, one on G: and one whose GamePath has a blank
\* first, after the change to E: the first is on E:, the second as it was,
\* and one profile is counted
C20_Witness ==
  /\ op.name = "apply_changes_tekno" /\ op.value = <<"E", ":", Sep>>
  /\ Len(profiles) = 2
  /\ profiles[1].text = <<"E", ":", Sep, "roms", Sep, "x.exe">>
  /\ profiles[2].text = <<" ", "G", ":", Sep, "x.exe">>
  /\ modified_count = 1

\* the value of a key=value line as the code reads it, and the quote
\* character of a matching pair of single or double quotes around it
ValueOf(line) == Strip(SubSeq(line, FirstIdx(line, "=") + 1, Len(line)))
QuoteOf(v) ==
  IF Len(v) >= 2 /\ v[1] = v[Len(v)] /\ v[1] \in {SingleQuote, DoubleQuote}
  THEN v[1] ELSE ""

\* the Application= line gives an absolute path enclosed in a pair of quotes
QuotedAbsolute(line) ==
  /\ IsApplicationLine(line)
  /\ QuoteOf(ValueOf(line)) # ""
  /\ HasDrive(Unquoted(ValueOf(line)))

\* C21: apply_changes_pc_games preserves the quotes around an Application=
\* path: an absolute path enclosed in a matching pair of single or double
\* quotes is rewritten beneath the games folder and written back enclosed
\* in the same quote character.
C21_QuotesPreserved ==
  [][Did("apply_changes_pc_games") =>
       \A i \in 1..Len(pc_ini) :
         QuotedAbsolute(pc_ini[i]) =>
           /\ QuoteOf(ValueOf(pc_ini'[i])) = QuoteOf(ValueOf(pc_ini[i]))
           /\ Beneath(Unquoted(ValueOf(pc_ini'[i])), pc_games_dir)]_vars

\* the part of it that fails by the quote test alone: double quotes, and a
\* games folder that is not the root of a drive
C21_DoubleQuoted ==
  [][Did("apply_changes_pc_games") =>
       \A i \in 1..Len(pc_ini) :
         (/\ QuotedAbsolute(pc_ini[i])
          /\ QuoteOf(ValueOf(pc_ini[i])) = DoubleQuote
          /\ Len(RStripSeps(pc_games_dir)) > 2) =>
           Beneath(Unquoted(ValueOf(pc_ini'[i])), pc_games_dir)]_vars

\* apply_changes_pc_games is applied to the INI file that its last
\* application wrote, with the games folder of that application
AppliedAgain == op.name = "apply_changes_pc_games" /\ Did("apply_changes_pc_games")

\* C27: apply_changes_pc_games is idempotent for a fixed games folder:
\* applied a second time with the same folder to the INI file the first
\* application wrote, it leaves every line as it is, whatever the depth of
\* the folder.
C27_Idempotent == [][AppliedAgain => pc_ini' = pc_ini]_vars

\* the step handles the end of the process of the current job
JobHandled == Did("on_finished") /\ current_job # NoJob

\* the outcome the step handles
Outcome == op'.value[1]

\* C23: after cancel during a batch the running ffmpeg is killed and the
\* queue emptied; no further job of the batch is started: until the end of
\* the killed process is handled no job is made current, and its handler
\* ends the batch; the killed job gets an ERROR status and every other row,
\* the queued ones among them, keeps the status it had.
C23_CancelEndsBatch ==
  /\ [][Did("cancel") =>
          /\ jobs' = << >>
          /\ proc # "NotRunning" => proc' = "Dying"
          /\ row_status' = row_status /\ started' = started]_vars
  /\ [](proc = "Dying" => (jobs = << >> /\ ~btn_convert))
  /\ [][proc = "Dying" =>
          /\ Fresh = << >>
          /\ proc' # "Dying" => Did("on_finished")]_vars
  /\ [][(proc = "Dying" /\ Did("on_finished")) =>
          /\ proc' = "NotRunning" /\ jobs' = << >> /\ btn_convert' /\ ~btn_cancel'
          /\ row_status'[current_job] = "ERROR (code)"
          /\ \A r \in Rows \ {current_job} : row_status'[r] = row_status[r]]_vars

\* a batch of two was cancelled during its first job: the killed job has
\* its ERROR status, the second was never started and is still pending
C23_Witness ==
  /\ op.name = "on_finished" /\ op.value = <<"crash">>
  /\ total_jobs = 2 /\ started = <<1>> /\ jobs = << >>
  /\ proc = "NotRunning"
  /\ row_status[1] = "ERROR (code)" /\ row_status[2] = "Pendiente"

\* C24 as stated: when the process of a job ends with a nonzero code or a
\* crash the original is left untouched and no temporary output is left.
C24_TempRemoved ==
  [][(JobHandled /\ Outcome \in ExitFailures) =>
       (final_path' = final_path /\ ~temp_path')]_vars

\* C24: when the process of a job ends with a nonzero code or a crash the
\* original is left untouched, and the temporary output is removed unless
\* its removal raises, which the handler ignores; the file at an input path
\* changes only in the handler of a process that exited with code 0, is
\* then that of the handled job, and when neither file operation raises it
\* is the converted file, no temporary file being left.
C24_FailureKeepsOriginal ==
  /\ [][(JobHandled /\ Outcome \in ExitFailures) =>
          /\ final_path' = final_path
          /\ Outcome \in {"nonzero", "crash"} => ~temp_path']_vars
  /\ [][final_path' # final_path =>
          /\ JobHandled /\ Outcome \notin ExitFailures
          /\ \A r \in Rows \ {current_job} : final_path'[r] = final_path[r]]_vars
  /\ [][(JobHandled /\ Outcome = "ok") =>
          (final_path'[current_job] = "converted" /\ ~temp_path')]_vars

\* the job of row 1 ended with a nonzero code: the original is in place and
\* no temporary file is left; the job of row 2 was replaced by its
\* conversion
C24_Witness ==
  /\ op.name = "on_finished" /\ op.value = <<"ok">>
  /\ started = <<1, 2>>
  /\ row_status[1] = "ERROR (code)" /\ final_path[1] = "original"
  /\ row_status[2] = "OK (reemplazado)" /\ final_path[2] = "converted"
  /\ ~temp_path

\* C28: the video converter never loses a video: whatever the outcome of a
\* job, a file exists at its input path, the original or the converted one.
C28_NoVideoLost == \A r \in Rows : final_path[r] \in {"original", "converted"}

\* the end of the batch is reported in the log
Reported == log # << >> /\ log[Len(log)] = "=== TODO TERMINADO ==="

\* C29: 0 <= jobs_done <= total_jobs in every reachable state, and the
\* batch is reported as finished, the total progress at 100, only when
\* jobs_done equals total_jobs.
C29_FinishedWhenAllDone ==
  /\ 0 <= jobs_done /\ jobs_done <= total_jobs
  /\ Reported => (progress_total = 100 /\ jobs_done = total_jobs)

\* the part of C29 that holds: the bounds of jobs_done
C29_DoneWithinTotal == 0 <= jobs_done /\ jobs_done <= total_jobs

\* the (section, key) and the value of the set call made last
LastSet == <<norm_section(op.section), norm_key(op.key)>>

\* the step is a set call that returns; so did the call before it, a set
SetReturns == Called("set") /\ raised' = "none"
AfterSet == op.name = "set" /\ raised = "none"

\* the value the file fs holds for (section, key) t, as a fresh document
\* reads it
Stored(fs, t) ==
  get(load([lines |-> << >>, refs |-> NoRefs, section_order |-> << >>,
            loaded |-> FALSE], fs).doc, t[1], t[2])

\* C25: read-your-writes over a sequence of set calls with no save in
\* between, here of one and of two calls: after a set, get gives the value
\* passed for the pair set, and still the value of the set before it when
\* that one was on another pair; a save that follows a set writes a file
\* holding the value set.
C25_ReadYourWrites ==
  /\ [][SetReturns =>
          /\ get(Doc', Target[1], Target[2]) = op'.value
          /\ (AfterSet /\ LastSet # Target) =>
               get(Doc', LastSet[1], LastSet[2]) = op.value]_vars
  /\ [][(AfterSet /\ Called("save") /\ raised' = "none") =>
          Stored([exists |-> fileExists', bytes |-> fileBytes', sep |-> linesep'],
                 LastSet) = op.value]_vars

\* the part of C25 that holds: a set on a pair that exists is read back,
\* and written by the save that follows
C25_ExistingKeyReadBack ==
  /\ [][(SetHits /\ raised' = "none") =>
          get(Doc', Target[1], Target[2]) = op'.value]_vars
  /\ [][(AfterSet /\ get(Doc, LastSet[1], LastSet[2]) = op.value
           /\ Called("save") /\ raised' = "none") =>
          Stored([exists |-> fileExists', bytes |-> fileBytes', sep |-> linesep'],
                 LastSet) = op.value]_vars

\* the entry of t points at a line of d that defines t and carries its value
EntryConsistent(d, t) ==
  /\ LineOf(d, t) \in 1..Len(d.lines)
  /\ Defines(d.lines, LineOf(d, t), t)
  /\ KeyvalGroups(d.lines[LineOf(d, t)]).val = d.refs[t].value
  /\ d.refs[t].section = t[1] /\ d.refs[t].key = t[2]

Matching(cats, norm) ==
  {c \in 1..Len(cats) :
     \E j \in 1..Len(cats[c].prefixes) :
       cats[c].prefixes[j] # << >> /\ Occurs(cats[c].prefixes[j], norm)}

\* the length of the longest prefix of a category that occurs in the path
LongestIn(cat, norm) ==
  Only({ n \in {TextLen(cat.prefixes[j]) : j \in 1..Len(cat.prefixes)} :
         /\ \E j \in 1..Len(cat.prefixes) :
              TextLen(cat.prefixes[j]) = n /\ Occurs(cat.prefixes[j], norm)
         /\ \A j \in 1..Len(cat.prefixes) :
              Occurs(cat.prefixes[j], norm) => TextLen(cat.prefixes[j]) <= n })

\* the categories whose matching prefix is the longest of all
Longest(cats, norm) ==
  {c \in Matching(cats, norm) :
     \A d \in Matching(cats, norm) :
       LongestIn(cats[d], norm) <= LongestIn(cats[c], norm)}

\* the step is a refresh that scanned the folder
Scanned == (Did("refresh_profiles") \/ Did("browse_userprofiles"))
           /\ op'.value = <<"none">>

\* C22: after refresh_profiles has scanned the folder there is one profile
\* for each XML file, holding the normalized GamePath of the file; a
\* profile is given "Sin categoría" exactly when no static prefix occurs in
\* its normalized GamePath, and otherwise the display text, without its
\* indentation, of a category whose prefix is the longest of those that
\* occur in it
C22_LongestPrefixWins ==
  [][Scanned =>
       /\ Len(mgr_profiles') = Len(up_files)
       /\ \A i \in 1..Len(up_files) :
            /\ mgr_profiles'[i].gamepath_norm
                 = norm_path_for_match(Strip(up_files[i]))
            /\ (mgr_profiles'[i].category = SinCategoria
                  <=> Matching(mgr_categories,
                               mgr_profiles'[i].gamepath_norm) = {})
            /\ Matching(mgr_categories, mgr_profiles'[i].gamepath_norm) # {}
                 => \E c \in Longest(mgr_categories,
                                     mgr_profiles'[i].gamepath_norm) :
                      mgr_profiles'[i].category
                        = Strip(mgr_categories[c].display)]_vars

\* a refresh has given one profile, whose path lies under the Arcade
\* Moderno folder of LIGHTGUN GAMES, the subcategory and not LIGHTGUN, and
\* another, on another drive, "Sin categoría"
C22_Witness ==
  /\ op.name = "refresh_profiles"
  /\ op.value = <<"none">>
  /\ Len(mgr_profiles) = 2
  /\ {2, 3} \subseteq Matching(mgr_categories, mgr_profiles[1].gamepath_norm)
  /\ mgr_profiles[1].category = <<"Arcade Moderno">>
  /\ mgr_profiles[2].gamepath_norm # << >>
  /\ mgr_profiles[2].category = SinCategoria

=============================================================================
